---- MODULE Spec2Model ----
(***************************************************************************)
(* A model of the harvesting pipeline of the Meta Ads Library scraper:     *)
(* src/src/main.ts (the actor's main(), its request handlers and           *)
(* sendToWebhook) and src/src/scraper.ts (scrapeQuery and the              *)
(* DeduplicationTracker).                                                  *)
(*                                                                         *)
(* JavaScript runs one handler at a time and switches handlers only at an  *)
(* await.  Every action below is the code between two awaits of one        *)
(* handler; handlers of different queries interleave freely.               *)
(***************************************************************************)
EXTENDS Integers, Sequences, FiniteSets, TLC

\* ------------------------------------------------------------------ bounds
NQ == 2             \* number of search queries of the run
MaxFp == 3          \* fingerprints are 1..MaxFp
MaxAdsPerQuery == 3 \* input.maxAdsPerQuery of the run
MaxPreload == 1     \* length of the fingerprint list the pre-check returns
MaxBatchSize == 2   \* largest configured webhookBatchSize

MaxCount == 3       \* largest number of cards a page measurement can show
MaxRounds == 52     \* measurement rounds of one pagination loop that are followed
MaxListLen == 2     \* length of a list given to loadExisting
MaxDuplicates == 2  \* duplicateCount up to which a tracker is followed
MaxTextLen == 3     \* length of the varied end of an ad text
LongTextLen == 198  \* length of the fixed start of a long ad text
MaxImportBatch == 2 \* ads in one request to the import endpoint
MaxRows == 4        \* rows up to which the ads table is followed
MaxSendCalls == 3   \* calls of sendToWebhook followed on their own
MaxDedupLen == 4    \* length of a list given to the filter and to deduplicateAds
MaxPieces == 3      \* pieces of text in a page content

Queries == 1..NQ
FPs == 1..MaxFp

\* --------------------------------------------------------- program constants
DefaultBatchSize == 100     \* input.webhookBatchSize || 100
MaxRequestRetries == 2      \* maxRequestRetries of the crawler
NavAttemptsFast == 2        \* for (attempt = 1; attempt <= 2; ...)
NavAttemptsSafe == 3        \* let retries = 3
MaxNoNewAds == 2            \* const maxNoNewAds = 2 (scrollForMore)
StallLimit == 3             \* if (noNewAdsCount >= 3) break (scrollAndLoadMore)
MaxScrollAttempts == 50     \* const maxScrollAttempts = 50 (scrollAndLoadMore)
TextWindow == 200           \* .substring(0, 200) of the normalized ad text

VARIABLES
    webhookUrl,         \* input.webhookUrl is set
    webhookBatchSize,   \* input.webhookBatchSize (0: not given)
    variant,            \* which scrapeQuery of scraper.ts runs: "fast" | "safe"
    mainPc,             \* position of main(): "precheck" | "run" | "done"
    seen,               \* DeduplicationTracker.seen
    duplicateCount,     \* DeduplicationTracker.duplicateCount
    allAds,             \* allAds of main()
    totalProcessed,     \* totalProcessed of main()
    batchNumber,        \* batchNumber of main()
    queriesCompleted,   \* queriesCompleted of main()
    pc,                 \* per query: the position of its request
    retryCount,         \* per query: request.retryCount of the crawler
    attempt,            \* per query: navigation attempts made by scrapeQuery
    ads,                \* per query: the handler's local `ads`
    idx,                \* per query: the loop variable i of the batch loop
    posts,              \* every POST started by sendToWebhook, in dispatch order
    dataset,            \* records pushed with Actor.pushData
    summary,            \* the SUMMARY record written at run end
    preloaded,          \* history: fingerprints given to loadExisting
    rawLen,             \* history: per query, number of isNew calls made for it
    acceptCount,        \* history: per fingerprint, isNew calls that returned true
    failure,            \* history: per query, why it failed ("none" if it did not)
    expired,            \* history: per query, the POSTs started when its budget expired
    scroll,             \* the locals of one call of the pagination loop
    loader,             \* a DeduplicationTracker followed call by call
    fpcalc,             \* calls of generateAdFingerprint on a record and a variant
    store,              \* the ads table behind the import-ads endpoint
    sender              \* sendToWebhook followed call by call

\* the state of main() and of its handlers
pipelineVars == <<webhookUrl, webhookBatchSize, variant, mainPc, seen, duplicateCount,
                  allAds, totalProcessed, batchNumber, queriesCompleted, pc, retryCount,
                  attempt, ads, idx, posts, dataset, summary, preloaded, rawLen,
                  acceptCount, failure, expired>>

\* the state of the functions that are followed call by call on their own
unitVars == <<scroll, loader, fpcalc, store, sender>>

vars == <<pipelineVars, unitVars>>

\* ----------------------------------------------------------------- helpers
Min(a, b) == IF a < b THEN a ELSE b

\* mutant: the end index is taken as inclusive
SliceInclusive(s, i, j) == SubSeq(s, i + 1, Min(j + 1, Len(s)))

\* Array.prototype.slice(i, j) on a 0-based array, as a 1-based sequence
Slice(s, i, j) == SubSeq(s, i + 1, Min(j, Len(s)))

SeqsUpTo(S, n) == UNION {[1..k -> S] : k \in 0..n}

Range(s) == {s[k] : k \in 1..Len(s)}

\* ceil(n / b) for n >= 0, b >= 1
Ceil(n, b) == (n + b - 1) \div b

\* ------------------------------------------------------ DeduplicationTracker
\* A tracker value is [seen |-> set of fingerprints, duplicateCount |-> Nat].
\* An ad is [fp |-> its ad_fingerprint, q |-> the query it was extracted for];
\* extractAdsFromPage stamps every ad, so ad_fingerprint is never empty when
\* isNew reads it.

\* mutant: isNew forgets to record the fingerprint it accepts
isNewNoAdd(tr, ad) ==
    IF ad.fp \in tr.seen
    THEN [ret |-> FALSE, seen |-> tr.seen, duplicateCount |-> tr.duplicateCount + 1]
    ELSE [ret |-> TRUE, seen |-> tr.seen, duplicateCount |-> tr.duplicateCount]

\* mutant: a duplicate is rejected but not counted
isNewNoCount(tr, ad) ==
    IF ad.fp \in tr.seen
    THEN [ret |-> FALSE, seen |-> tr.seen, duplicateCount |-> tr.duplicateCount]
    ELSE [ret |-> TRUE, seen |-> tr.seen \cup {ad.fp},
          duplicateCount |-> tr.duplicateCount]

\* isNew(ad): the return value and the tracker after the call
isNew(tr, ad) ==
    IF ad.fp \in tr.seen
    THEN [ret |-> FALSE, seen |-> tr.seen, duplicateCount |-> tr.duplicateCount + 1]
    ELSE [ret |-> TRUE, seen |-> tr.seen \cup {ad.fp},
          duplicateCount |-> tr.duplicateCount]

\* mutant: loadExisting counts the fingerprints it already has as duplicates
loadExistingCounting(tr, fingerprints) ==
    [seen |-> tr.seen \cup {fingerprints[k] : k \in 1..Len(fingerprints)},
     duplicateCount |-> tr.duplicateCount
                          + Cardinality({k \in 1..Len(fingerprints) : fingerprints[k] \in tr.seen})]

\* mutant: loadExisting drops the list
loadExistingNothing(tr, fingerprints) == tr

\* loadExisting(fingerprints): for (const fp of fingerprints) seen.add(fp)
loadExisting(tr, fingerprints) ==
    [seen |-> tr.seen \cup Range(fingerprints), duplicateCount |-> tr.duplicateCount]

\* get stats()
stats(tr) == [unique |-> Cardinality(tr.seen), duplicates |-> tr.duplicateCount]

\* rawAds.filter(ad => dedupeTracker.isNew(ad)): the kept ads and the tracker
\* after the last call; the calls are made in array order
RECURSIVE FilterNew(_, _)
FilterNew(tr, rawAds) ==
    IF rawAds = <<>>
    THEN [ads |-> <<>>, seen |-> tr.seen, duplicateCount |-> tr.duplicateCount]
    ELSE LET r == isNew(tr, Head(rawAds))
             rest == FilterNew([seen |-> r.seen, duplicateCount |-> r.duplicateCount],
                               Tail(rawAds))
         IN [ads |-> IF r.ret THEN <<Head(rawAds)>> \o rest.ads ELSE rest.ads,
             seen |-> rest.seen, duplicateCount |-> rest.duplicateCount]

Tracker == [seen |-> seen, duplicateCount |-> duplicateCount]

\* no pagination loop is followed
ScrollIdle == [pc |-> "idle"]

\* no tracker is followed on its own
LoaderIdle == [op |-> "idle"]

\* no fingerprint is being computed
FpIdle == [pc |-> "idle"]

\* the handler's time budget did not expire
NotExpired == -1

\* the import-ads endpoint is not followed
StoreIdle == [status |-> "idle"]

SenderIdle == [pc |-> "idle"]

UnitsIdle ==
    /\ scroll = ScrollIdle /\ loader = LoaderIdle /\ fpcalc = FpIdle /\ store = StoreIdle
    /\ sender = SenderIdle

\* ------------------------------------------------------------------- Init
\* main() up to the pre-check: the input is read, the counters are zero, the
\* tracker is empty and every request is queued.
Init ==
    /\ webhookUrl \in BOOLEAN
    /\ webhookBatchSize \in (IF webhookUrl THEN 0..MaxBatchSize ELSE {0})
    /\ variant \in {"fast", "safe"}
    /\ mainPc = "precheck"
    /\ seen = {}
    /\ duplicateCount = 0
    /\ allAds = <<>>
    /\ totalProcessed = 0
    /\ batchNumber = 0
    /\ queriesCompleted = 0
    /\ pc = [q \in Queries |-> "queued"]
    /\ retryCount = [q \in Queries |-> 0]
    /\ attempt = [q \in Queries |-> 0]
    /\ ads = [q \in Queries |-> <<>>]
    /\ idx = [q \in Queries |-> 0]
    /\ posts = <<>>
    /\ dataset = {}
    /\ summary = [written |-> FALSE]
    /\ preloaded = {}
    /\ rawLen = [q \in Queries |-> 0]
    /\ acceptCount = [f \in FPs |-> 0]
    /\ failure = [q \in Queries |-> "none"]
    /\ expired = [q \in Queries |-> NotExpired]
    /\ UnitsIdle

\* --------------------------------------------------------------- pre-check
\* main.ts 66-88.  Without a webhookUrl nothing is fetched.  The fetch throws,
\* answers with a non-success status, answers with a body response.json()
\* rejects, or answers with a (possibly empty or absent) fingerprints list.
StoreFps == {f \in FPs : f <= MaxPreload}   \* fingerprints the store can hold

\* how the pre-check fetch can end
PreCheckOutcomes == {"throws", "notOk", "badBody", "ok"}

\* if (response.ok) { data = await response.json();
\*                    if (data.fingerprints?.length > 0) loadExisting(...) }
PreCheckLoads(outcome, fingerprints) == outcome = "ok" /\ Len(fingerprints) > 0

\* mutant: an error of the pre-check ends main()
AfterPreCheckAbort(outcome) == IF outcome = "ok" THEN "run" ELSE "aborted"

\* mutant: main() goes through the pre-check again
AfterPreCheckAgain(outcome) == "precheck"

\* Where main() goes on after the pre-check: the catch only logs, so in every
\* case at the code that builds and runs the crawler.
AfterPreCheck(outcome) == "run"

PreCheck ==
    /\ mainPc = "precheck"
    /\ \/ /\ ~webhookUrl
          /\ mainPc' = "run"
          /\ UNCHANGED <<seen, preloaded>>
       \/ /\ webhookUrl
          /\ \E outcome \in PreCheckOutcomes :
               \E fingerprints \in SeqsUpTo(StoreFps, MaxPreload) :
                 /\ IF PreCheckLoads(outcome, fingerprints)
                    THEN /\ seen' = loadExisting(Tracker, fingerprints).seen
                         /\ preloaded' = Range(fingerprints)
                    ELSE UNCHANGED <<seen, preloaded>>
                 /\ mainPc' = AfterPreCheck(outcome)
    /\ UNCHANGED <<webhookUrl, webhookBatchSize, variant, duplicateCount, allAds,
                   totalProcessed, batchNumber, queriesCompleted, pc, retryCount,
                   attempt, ads, idx, posts, dataset, summary, rawLen,
                   acceptCount, failure, expired, unitVars>>

\* ------------------------------------------------------------ the crawler
inputVars == <<webhookUrl, webhookBatchSize, variant>>
trackerVars == <<seen, duplicateCount, preloaded, rawLen, acceptCount>>
collectVars == <<allAds, totalProcessed>>
deliveryVars == <<batchNumber, posts, dataset, ads, idx>>

\* The crawler opens the page of a queued request itself before it calls
\* requestHandler; when that fails, or page.setViewportSize (outside the
\* handler's try) throws, the request is retried up to maxRequestRetries times.
RequestFails(q) ==
    /\ mainPc = "run"
    /\ pc[q] = "queued"
    /\ retryCount[q] < MaxRequestRetries
    /\ retryCount' = [retryCount EXCEPT ![q] = @ + 1]
    /\ UNCHANGED <<unitVars, expired, inputVars, trackerVars, collectVars, deliveryVars, mainPc,
                   queriesCompleted, pc, attempt, summary, failure>>

\* mutant: the catch forgets the counter
CountFailedNot(n) == n

\* queriesCompleted++ of the catch block and of failedRequestHandler
CountFailed(n) == n + 1

\* failedRequestHandler: called when the request failed with no retry left
FailedRequestHandler(q) ==
    /\ mainPc = "run"
    /\ pc[q] = "queued"
    /\ retryCount[q] = MaxRequestRetries
    /\ queriesCompleted' = CountFailed(queriesCompleted)
    /\ pc' = [pc EXCEPT ![q] = "failed"]
    /\ failure' = [failure EXCEPT ![q] = "request"]
    /\ retryCount' = [retryCount EXCEPT ![q] = 0]
    /\ UNCHANGED <<unitVars, expired, inputVars, trackerVars, collectVars, deliveryVars, mainPc,
                   attempt, summary>>

\* requestHandler up to the first await of scrapeQuery.  Nothing reads the
\* request's retry count once its handler runs, so it is dropped here.
RequestHandlerStart(q) ==
    /\ mainPc = "run"
    /\ pc[q] = "queued"
    /\ pc' = [pc EXCEPT ![q] = "navigating"]
    /\ retryCount' = [retryCount EXCEPT ![q] = 0]
    /\ UNCHANGED <<unitVars, expired, inputVars, trackerVars, collectVars, deliveryVars, mainPc,
                   queriesCompleted, attempt, summary, failure>>

\* ------------------------------------------------------------ scrapeQuery
\* mutant: one navigation attempt more than the loop allows
NavAttemptsOneMore(v) == IF v = "fast" THEN NavAttemptsFast + 1 ELSE NavAttemptsSafe + 1

\* the number of page.goto attempts of the navigation loop
NavAttempts(v) == IF v = "fast" THEN NavAttemptsFast ELSE NavAttemptsSafe

\* mutant: a blocked query is sent back to navigation instead of failing
HandlerCatchRenavigate(q, reason) ==
    /\ queriesCompleted' = CountFailed(queriesCompleted)
    /\ pc' = [pc EXCEPT ![q] = IF reason = "blocked" THEN "navigating" ELSE "failed"]
    /\ failure' = [failure EXCEPT ![q] = reason]
    /\ attempt' = [attempt EXCEPT ![q] = 0]

\* The catch of requestHandler: log the error, queriesCompleted++.  The
\* locals of scrapeQuery are gone.
HandlerCatch(q, reason) ==
    /\ queriesCompleted' = CountFailed(queriesCompleted)
    /\ pc' = [pc EXCEPT ![q] = "failed"]
    /\ failure' = [failure EXCEPT ![q] = reason]
    /\ attempt' = [attempt EXCEPT ![q] = 0]

\* One page.goto of the navigation loop.  A success leaves the loop; a failure
\* of the last attempt is rethrown and reaches the handler's catch; any other
\* failure waits and tries again.
Navigate(q) ==
    /\ pc[q] = "navigating"
    /\ \E ok \in BOOLEAN :
         IF ok
         THEN /\ pc' = [pc EXCEPT ![q] = "loading"]
              /\ attempt' = [attempt EXCEPT ![q] = @ + 1]
              /\ UNCHANGED <<queriesCompleted, failure>>
         ELSE IF attempt[q] + 1 = NavAttempts(variant)
              THEN HandlerCatch(q, "navigation")
              ELSE /\ attempt' = [attempt EXCEPT ![q] = @ + 1]
                   /\ UNCHANGED <<pc, queriesCompleted, failure>>
    /\ UNCHANGED <<unitVars, expired, inputVars, trackerVars, collectVars, deliveryVars, mainPc,
                   retryCount, summary>>

\* mutant: a query without new ads is given up as failed
HandleResultFailEmpty(q, rawAds) ==
    LET r == FilterNew(Tracker, rawAds) IN
    /\ seen' = r.seen
    /\ duplicateCount' = r.duplicateCount
    /\ ads' = [ads EXCEPT ![q] = r.ads]
    /\ allAds' = allAds \o r.ads
    /\ totalProcessed' = totalProcessed + Len(r.ads)
    /\ queriesCompleted' = queriesCompleted + 1
    /\ rawLen' = [rawLen EXCEPT ![q] = @ + Len(rawAds)]
    /\ acceptCount' = [f \in FPs |->
                         acceptCount[f] + Cardinality({k \in 1..Len(r.ads) : r.ads[k].fp = f})]
    /\ pc' = [pc EXCEPT ![q] = IF Len(r.ads) > 0 THEN "pushing" ELSE "failed"]
    /\ attempt' = [attempt EXCEPT ![q] = 0]
    /\ UNCHANGED <<batchNumber, posts, dataset, idx, preloaded, failure>>

\* requestHandler from the return of scrapeQuery to the await of
\* Actor.pushData: filter through the tracker, update the counters, and either
\* go on to the dataset push or finish (ads.length === 0).
HandleResult(q, rawAds) ==
    LET r == FilterNew(Tracker, rawAds) IN
    /\ seen' = r.seen
    /\ duplicateCount' = r.duplicateCount
    /\ ads' = [ads EXCEPT ![q] = r.ads]
    /\ allAds' = allAds \o r.ads
    /\ totalProcessed' = totalProcessed + Len(r.ads)
    /\ queriesCompleted' = queriesCompleted + 1
    /\ rawLen' = [rawLen EXCEPT ![q] = @ + Len(rawAds)]
    /\ acceptCount' = [f \in FPs |->
                         acceptCount[f] + Cardinality({k \in 1..Len(r.ads) : r.ads[k].fp = f})]
    /\ pc' = [pc EXCEPT ![q] = IF Len(r.ads) > 0 THEN "pushing" ELSE "completed"]
    /\ attempt' = [attempt EXCEPT ![q] = 0]
    /\ UNCHANGED <<batchNumber, posts, dataset, idx, preloaded, failure>>

\* waitForAds: false only when waiting on the page throws; scrapeQuery then
\* returns [] before it looks for a block.
WaitForAds(q) ==
    /\ pc[q] = "loading"
    /\ \E loaded \in BOOLEAN :
         IF loaded
         THEN /\ pc' = [pc EXCEPT ![q] = "detecting"]
              /\ UNCHANGED <<trackerVars, collectVars, deliveryVars, queriesCompleted,
                             attempt, failure>>
         ELSE HandleResult(q, <<>>)
    /\ UNCHANGED <<unitVars, expired, inputVars, mainPc, retryCount, summary>>

\* the texts scrapeQuery looks for in the page content
BlockSignatures(v) ==
    IF v = "fast" THEN {"Please try again later", "something went wrong"}
    ELSE {"unusual traffic", "checkpoint"}

NoResultsMarkers(v) == IF v = "fast" THEN {"No ads match", "no results"} ELSE {}

\* mutant: the no-results check comes first
CheckContentNoResultsFirst(blocked, noResults) ==
    IF noResults THEN "empty" ELSE IF blocked THEN "blocked" ELSE "continue"

\* The two checks on the page content in their order: a block signature
\* throws, then a no-results marker returns [], else scrapeQuery goes on.
CheckContent(blocked, noResults) ==
    IF blocked THEN "blocked" ELSE IF noResults THEN "empty" ELSE "continue"

\* page.content() and the checks on it; blocked and noResults tell whether the
\* content includes one of the variant's block signatures and one of its
\* no-results markers (the "safe" scrapeQuery has none).
DetectBlock(q) ==
    /\ pc[q] = "detecting"
    /\ \E blocked \in BOOLEAN, noResults \in BOOLEAN :
         IF CheckContent(blocked, noResults /\ NoResultsMarkers(variant) # {}) = "blocked"
         THEN /\ HandlerCatch(q, "blocked")
              /\ UNCHANGED <<trackerVars, collectVars, deliveryVars>>
         ELSE IF CheckContent(blocked, noResults /\ NoResultsMarkers(variant) # {}) = "empty"
              THEN HandleResult(q, <<>>)
              ELSE /\ pc' = [pc EXCEPT ![q] = "paginating"]
                   /\ UNCHANGED <<trackerVars, collectVars, deliveryVars,
                                  queriesCompleted, attempt, failure>>
    /\ UNCHANGED <<unitVars, expired, inputVars, mainPc, retryCount, summary>>

\* scrollForMore / scrollAndLoadMore: the scroll loop changes the page only
Paginate(q) ==
    /\ pc[q] = "paginating"
    /\ pc' = [pc EXCEPT ![q] = "extracting"]
    /\ UNCHANGED <<unitVars, expired, inputVars, trackerVars, collectVars, deliveryVars, mainPc,
                   queriesCompleted, retryCount, attempt, summary, failure>>

\* The card lists a page can show: up to maxAdsPerQuery cards, or one card
\* more than the query asks for (the extra one repeats the first).
PageCards ==
    SeqsUpTo(FPs, MaxAdsPerQuery)
        \cup {Append(c, c[1]) : c \in [1..MaxAdsPerQuery -> FPs]}

\* extractAdsFromPage stamps each card's fingerprint; scrapeQuery returns
\* ads.slice(0, maxAds), and the handler goes on with that array.
Extract(q) ==
    /\ pc[q] = "extracting"
    /\ \E cards \in PageCards :
         HandleResult(q, Slice([k \in 1..Len(cards) |-> [fp |-> cards[k], q |-> q]],
                               0, MaxAdsPerQuery))
    /\ UNCHANGED <<unitVars, expired, inputVars, mainPc, retryCount, summary>>

\* ----------------------------------------------------------- sendToWebhook
\* const batchSize = input.webhookBatchSize || 100
BatchSize == IF webhookBatchSize = 0 THEN DefaultBatchSize ELSE webhookBatchSize

\* mutant: the counter is not advanced
NextBatchNumberStuck(n) == n

\* batchNumber++
NextBatchNumber(n) == n + 1

\* mutant: an empty list is sent like any other
SendsNothingWithoutUrlOnly(url, batch) == ~url

\* if (!input.webhookUrl || ads.length === 0) return
SendsNothing(url, batch) == ~url \/ Len(batch) = 0

\* String(value) of a number and of a boolean
StringOfNumber(n) == ToString(n)

StringOfBoolean(b) == IF b THEN "true" ELSE "false"

\* mutant: the headers are built from the counter as it was on entry
HeadersOnEntry(n, isFinal) ==
    [batchNumber |-> StringOfNumber(n - 1), isFinal |-> StringOfBoolean(isFinal)]

\* 'X-Batch-Number': String(batchNumber), 'X-Is-Final': String(isFinal), with
\* batchNumber the counter when fetch is called
Headers(n, isFinal) ==
    [batchNumber |-> StringOfNumber(n), isFinal |-> StringOfBoolean(isFinal)]

\* The payload and the headers of one POST.  batchNumber is the counter's
\* value after the increment; nothing is awaited between the increment and
\* the call of fetch, so payload and headers read the same value.
Payload(n, batch, q, isFinal) ==
    [batchNumber |-> n, ads |-> batch, query |-> q, isFinal |-> isFinal,
     hdrBatchNumber |-> Headers(n, isFinal).batchNumber,
     hdrIsFinal |-> Headers(n, isFinal).isFinal, status |-> "inflight",
     log |-> [level |-> "none"]]

\* mutant: a failed POST is rethrown out of sendToWebhook
AfterPostRethrow(outcome) == IF outcome = "ok" THEN "loop" ELSE "catch"

\* Where the handler goes on after the awaited fetch settled: sendToWebhook
\* logs a non-success status or a thrown error and returns normally.
AfterPost(outcome) == "loop"

\* The head of `for (i = 0; i < ads.length; i += batchSize)` at index i, run
\* when the preceding await has resolved: either the next batch is sliced and
\* sendToWebhook runs up to its fetch, or the loop and the handler end.
LoopStep(q, i, postsNow) ==
    IF i < Len(ads[q])
    THEN LET batch == Slice(ads[q], i, i + BatchSize) IN
         /\ idx' = [idx EXCEPT ![q] = i]
         /\ pc' = [pc EXCEPT ![q] = "posting"]
         /\ IF SendsNothing(webhookUrl, batch)
            THEN /\ batchNumber' = batchNumber
                 /\ posts' = postsNow
            ELSE /\ batchNumber' = NextBatchNumber(batchNumber)
                 /\ posts' = Append(postsNow,
                                    Payload(NextBatchNumber(batchNumber), batch, q, FALSE))
    ELSE /\ idx' = [idx EXCEPT ![q] = 0]
         /\ pc' = [pc EXCEPT ![q] = "completed"]
         /\ batchNumber' = batchNumber
         /\ posts' = postsNow

\* mutant: the records are not stored
pushDataNothing(ds, list) == ds

\* the dataset after Actor.pushData(ads) resolved
pushData(ds, list) == ds \cup Range(list)

\* await Actor.pushData(ads), then the first batch if a webhook is configured.
\* A rejected push reaches the handler's catch.
PushData(q) ==
    /\ pc[q] = "pushing"
    /\ \E ok \in BOOLEAN :
         IF ok
         THEN /\ dataset' = pushData(dataset, ads[q])
              /\ IF webhookUrl
                 THEN LoopStep(q, 0, posts)
                 ELSE /\ pc' = [pc EXCEPT ![q] = "completed"]
                      /\ UNCHANGED <<batchNumber, posts, idx>>
              /\ UNCHANGED <<queriesCompleted, failure, attempt>>
         ELSE /\ HandlerCatch(q, "push")
              /\ UNCHANGED <<batchNumber, posts, dataset, idx>>
    /\ UNCHANGED <<unitVars, expired, inputVars, trackerVars, collectVars, ads, mainPc, retryCount,
                   summary>>

\* What sendToWebhook logs when its fetch settles: nothing on success,
\* log.warning with response.status on another status, log.error with the
\* error when fetch threw.
WebhookLog(outcome) ==
    CASE outcome = "ok" -> [level |-> "none"]
      [] outcome = "notOk" -> [level |-> "warning", status |-> outcome]
      [] outcome = "threw" -> [level |-> "error", error |-> outcome]

\* The POST of the query's batch in flight settles: fetch resolved with a
\* success status, resolved with another status, or threw.  The entry
\* logged for it is kept with the POST (log).
Settle(postsNow, q, outcome) ==
    [k \in 1..Len(postsNow) |->
        IF postsNow[k].query = q /\ postsNow[k].status = "inflight"
        THEN [postsNow[k] EXCEPT !.status = outcome, !.log = WebhookLog(outcome)]
        ELSE postsNow[k]]

PostComplete(q) ==
    /\ pc[q] = "posting"
    /\ \E outcome \in {"ok", "notOk", "threw"} :
         IF AfterPost(outcome) = "loop"
         THEN /\ LoopStep(q, idx[q] + BatchSize, Settle(posts, q, outcome))
              /\ UNCHANGED <<queriesCompleted, failure, attempt>>
         ELSE /\ HandlerCatch(q, "delivery")
              /\ posts' = Settle(posts, q, outcome)
              /\ UNCHANGED <<batchNumber, idx>>
    /\ UNCHANGED <<unitVars, expired, inputVars, trackerVars, collectVars, ads, dataset, mainPc,
                   retryCount, summary>>

\* ------------------------------------------------------------- run end
\* deduplicateAds: the first ad of every fingerprint, in order
RECURSIVE deduplicateAds(_)
deduplicateAds(list) ==
    IF list = <<>> THEN <<>>
    ELSE LET front == deduplicateAds(SubSeq(list, 1, Len(list) - 1))
             last == list[Len(list)]
         IN IF \E k \in 1..Len(front) : front[k].fp = last.fp
            THEN front ELSE Append(front, last)

\* mutant: only the batches whose POST succeeded are counted
WebhookBatchesDelivered(n, ps) == Cardinality({k \in 1..Len(ps) : ps[k].status = "ok"})

\* webhookBatches: batchNumber
WebhookBatches(n, ps) == n

\* mutant: only a completed request counts as handled
TerminalCompletedOnly(q) == pc[q] = "completed"

\* a request the crawler is done with: its handler returned, or
\* failedRequestHandler ran for it (after a failed request or an expired
\* handler)
Terminal(q) == pc[q] \in {"completed", "failed"} \/ expired[q] # NotExpired

\* crawler.run resolved: every request was handled.  main() computes the
\* final numbers and stores SUMMARY.
Summary ==
    /\ mainPc = "run"
    /\ \A q \in Queries : Terminal(q)
    /\ summary' = [written |-> TRUE,
                   queriesProcessed |-> queriesCompleted,
                   totalQueries |-> NQ,
                   totalAdsScraped |-> totalProcessed,
                   uniqueAds |-> Len(deduplicateAds(allAds)),
                   duplicatesSkipped |-> stats(Tracker).duplicates,
                   webhookBatches |-> WebhookBatches(batchNumber, posts)]
    /\ mainPc' = "done"
    /\ UNCHANGED <<unitVars, expired, inputVars, trackerVars, collectVars, deliveryVars,
                   queriesCompleted, pc, retryCount, attempt, failure>>

Next ==
    \/ PreCheck
    \/ \E q \in Queries : RequestFails(q)
    \/ \E q \in Queries : FailedRequestHandler(q)
    \/ \E q \in Queries : RequestHandlerStart(q)
    \/ \E q \in Queries : Navigate(q)
    \/ \E q \in Queries : WaitForAds(q)
    \/ \E q \in Queries : DetectBlock(q)
    \/ \E q \in Queries : Paginate(q)
    \/ \E q \in Queries : Extract(q)
    \/ \E q \in Queries : PushData(q)
    \/ \E q \in Queries : PostComplete(q)
    \/ Summary

Spec == Init /\ [][Next]_vars

\* Extract on a page that shows no card: possible exactly when Extract is
ExtractNothing(q) ==
    /\ pc[q] = "extracting"
    /\ HandleResult(q, <<>>)
    /\ UNCHANGED <<unitVars, expired, inputVars, mainPc, retryCount, summary>>

\* The steps of Next, Extract taken with an empty page: some step of
\* Scheduled is possible exactly when some step of Next is, and every step
\* of Next ends the wait of the query (or of main) that takes it.
Scheduled ==
    \/ PreCheck
    \/ \E q \in Queries : RequestFails(q)
    \/ \E q \in Queries : FailedRequestHandler(q)
    \/ \E q \in Queries : RequestHandlerStart(q)
    \/ \E q \in Queries : Navigate(q)
    \/ \E q \in Queries : WaitForAds(q)
    \/ \E q \in Queries : DetectBlock(q)
    \/ \E q \in Queries : Paginate(q)
    \/ \E q \in Queries : ExtractNothing(q)
    \/ \E q \in Queries : PushData(q)
    \/ \E q \in Queries : PostComplete(q)
    \/ Summary

\* a run on the "fast" scrapeQuery with batches of one ad or the default size
InitFair == Init /\ webhookBatchSize <= 1 /\ variant = "fast"

\* The event loop runs every continuation that is ready, and every awaited
\* operation of a handler settles (page operations and the crawler's own
\* navigation carry timeouts): the run does not stand still while a step is
\* possible.
FairSpec == InitFair /\ [][Next]_vars /\ WF_vars(Scheduled)

\* ------------------------------------------------- requestHandlerTimeoutSecs
\* the positions at which a handler waits on the page, and on a delivery
PagePhase == {"navigating", "loading", "detecting", "paginating", "extracting"}
DeliveryPhase == {"pushing", "posting"}

\* The budget of a running handler expires (requestHandlerTimeoutSecs), on an
\* attempt that has no retry left.  The crawler gives the handler's promise
\* up, closes the page and calls failedRequestHandler.  Nothing in
\* requestHandler looks at the expiry, and a promise cannot be stopped: the
\* handler goes on from where it waits.  Waiting on the closed page, its
\* page operation throws (into the catch, or swallowed so that scrapeQuery
\* returns no ads), and it ends there counting the query once more; waiting on
\* Actor.pushData or on fetch, it goes on with its batch loop.
HandlerTimeout(q) ==
    /\ mainPc = "run"
    /\ pc[q] \in PagePhase \cup DeliveryPhase
    /\ expired[q] = NotExpired
    /\ expired' = [expired EXCEPT ![q] = Len(posts)]
    /\ failure' = [failure EXCEPT ![q] = "timeout"]
    /\ IF pc[q] \in PagePhase
       THEN /\ queriesCompleted' = CountFailed(queriesCompleted) + 1
            /\ \E end \in {"failed", "completed"} : pc' = [pc EXCEPT ![q] = end]
            /\ attempt' = [attempt EXCEPT ![q] = 0]
       ELSE /\ queriesCompleted' = CountFailed(queriesCompleted)
            /\ UNCHANGED <<pc, attempt>>
    /\ UNCHANGED <<unitVars, inputVars, trackerVars, collectVars, deliveryVars, mainPc,
                   retryCount, summary>>

\* The run with handler budgets that can expire.  Actor.exit() at the end of
\* main() ends the process and every handler still going.
NextTimeout ==
    \/ PreCheck
    \/ \E q \in Queries : RequestFails(q)
    \/ \E q \in Queries : FailedRequestHandler(q)
    \/ \E q \in Queries : RequestHandlerStart(q)
    \/ \E q \in Queries : HandlerTimeout(q)
    \/ \E q \in Queries : mainPc = "run" /\ Navigate(q)
    \/ \E q \in Queries : mainPc = "run" /\ WaitForAds(q)
    \/ \E q \in Queries : mainPc = "run" /\ DetectBlock(q)
    \/ \E q \in Queries : mainPc = "run" /\ Paginate(q)
    \/ \E q \in Queries : mainPc = "run" /\ Extract(q)
    \/ \E q \in Queries : mainPc = "run" /\ PushData(q)
    \/ \E q \in Queries : mainPc = "run" /\ PostComplete(q)
    \/ Summary

\* a run that delivers to a webhook in batches of one ad
InitTimeout == Init /\ webhookUrl /\ webhookBatchSize = 1 /\ variant = "fast"

TimeoutSpec == InitTimeout /\ [][NextTimeout]_vars

\* ====================================================================
\* The pagination loops, one measurement round per step
\* ====================================================================
\* scroll holds the locals of the loop (maxAds, previousCount, noNewAdsCount,
\* currentCount, i), where the call stands (pc), its return value (ret) and
\* the history of the measurements made: their number (rounds), the last one
\* (last), and whether they grew round by round ("growing", k counts these
\* rounds), grew and then stayed equal ("plateau"), or did anything else
\* ("other"); how many of the latest measurements in a row showed no increase
\* (flat); the scrolls made (scrolls) and how many of them were made when the
\* last measurement was taken (scrollsAtLast).
Counts == 0..MaxCount

\* the pipeline's variables while a function is followed on its own
PipelineIdle ==
    /\ webhookUrl = FALSE /\ webhookBatchSize = 0 /\ variant = "fast"
    /\ mainPc = "precheck" /\ seen = {} /\ duplicateCount = 0
    /\ allAds = <<>> /\ totalProcessed = 0 /\ batchNumber = 0
    /\ queriesCompleted = 0
    /\ pc = [q \in Queries |-> "queued"]
    /\ retryCount = [q \in Queries |-> 0]
    /\ attempt = [q \in Queries |-> 0]
    /\ ads = [q \in Queries |-> <<>>]
    /\ idx = [q \in Queries |-> 0]
    /\ posts = <<>> /\ dataset = {}
    /\ summary = [written |-> FALSE]
    /\ preloaded = {}
    /\ rawLen = [q \in Queries |-> 0]
    /\ acceptCount = [f \in FPs |-> 0]
    /\ failure = [q \in Queries |-> "none"]
    /\ expired = [q \in Queries |-> NotExpired]

\* scrollForMore(page, maxAds) entered: previousCount = 0, noNewAdsCount = 0
ScrollForMoreCall(maxAds) ==
    [fn |-> "scrollForMore", pc |-> "loop", maxAds |-> maxAds,
     previousCount |-> 0, noNewAdsCount |-> 0, currentCount |-> 0, i |-> 0,
     ret |-> 0, rounds |-> 0, last |-> 0, k |-> 0, shape |-> "growing",
     flat |-> 0, scrolls |-> 0, scrollsAtLast |-> 0]

\* mutant: the loop goes on at a count equal to the maximum
ReachedMaxStrict(count, maxAds) == count > maxAds

\* currentCount >= maxAds (scrollForMore), !(currentCount < maxAds)
\* (scrollAndLoadMore, scrapeQuery)
ReachedMax(count, maxAds) == count >= maxAds

\* scrollAndLoadMore(page, maxAds, currentCount) entered; scrapeQuery calls it
\* only if (adCount < maxAds).  The loop condition is tested once on entry.
ScrollAndLoadMoreCall(maxAds, currentCount) ==
    [fn |-> "scrollAndLoadMore",
     pc |-> IF 0 < MaxScrollAttempts /\ ~ReachedMax(currentCount, maxAds)
            THEN "loop" ELSE "returned",
     maxAds |-> maxAds,
     previousCount |-> currentCount, noNewAdsCount |-> 0,
     currentCount |-> currentCount, i |-> 0,
     ret |-> currentCount, rounds |-> 0, last |-> currentCount, k |-> 0,
     shape |-> "growing", flat |-> 0, scrolls |-> 0, scrollsAtLast |-> 0]

InitScroll ==
    /\ PipelineIdle /\ loader = LoaderIdle /\ fpcalc = FpIdle /\ store = StoreIdle /\ sender = SenderIdle
    /\ \E maxAds \in 1..(MaxCount + 1) :
          \/ scroll = ScrollForMoreCall(maxAds)
          \/ \E c \in Counts : c < maxAds /\ scroll = ScrollAndLoadMoreCall(maxAds, c)

\* the history of the measurements after one more, m
Measured(s, m) ==
    [s EXCEPT !.rounds = s.rounds + 1,
              !.last = m,
              !.flat = IF m <= s.last THEN s.flat + 1 ELSE 0,
              !.scrollsAtLast = s.scrolls,
              !.k = IF s.shape = "growing" /\ m > s.last THEN s.k + 1 ELSE s.k,
              !.shape = IF m = s.last
                        THEN (IF s.shape = "other" THEN "other" ELSE "plateau")
                        ELSE (IF s.shape = "growing" /\ m > s.last
                              THEN "growing" ELSE "other")]

\* mutant: an equal measurement is not counted
StallCountNever(n, same) == 0

\* noNewAdsCount after a measurement that equals (same) the previous count
\* or differs from it
StallCount(n, same) == IF same THEN n + 1 ELSE 0

\* One pass of `while (noNewAdsCount < maxNoNewAds)` of scrollForMore with the
\* measurement currentCount, up to the next test of the loop condition: the
\* break at the maximum, or the stall count, the scroll, the wait and the
\* click on "See more".
ScrollForMoreRound(s, currentCount) ==
    IF ReachedMax(currentCount, s.maxAds)
    THEN [s EXCEPT !.pc = "returned", !.ret = s.previousCount]
    ELSE LET n == StallCount(s.noNewAdsCount, currentCount = s.previousCount) IN
         [s EXCEPT !.noNewAdsCount = n,
                   !.previousCount = currentCount,
                   !.ret = currentCount,
                   !.scrolls = s.scrolls + 1,
                   !.pc = IF n < MaxNoNewAds THEN "loop" ELSE "returned"]

\* window.scrollBy at the head of a pass of scrollAndLoadMore
Scrolled(s) == [s EXCEPT !.scrolls = s.scrolls + 1]

\* i < maxScrollAttempts
MoreAttempts(i) == i < MaxScrollAttempts

\* One pass of the for loop of scrollAndLoadMore with the measurement
\* newCount, then i++ and the next test of the loop condition.
ScrollAndLoadMoreRound(s, newCount) ==
    LET same == newCount = s.previousCount
        n == StallCount(s.noNewAdsCount, same)
    IN IF same /\ n >= StallLimit
       THEN [s EXCEPT !.noNewAdsCount = n, !.pc = "returned", !.ret = s.currentCount]
       ELSE [s EXCEPT !.noNewAdsCount = n,
                      !.previousCount = IF same THEN s.previousCount ELSE newCount,
                      !.currentCount = newCount,
                      !.i = s.i + 1,
                      !.ret = newCount,
                      !.pc = IF MoreAttempts(s.i + 1) /\ ~ReachedMax(newCount, s.maxAds)
                             THEN "loop" ELSE "returned"]

ScrollForMoreStep ==
    /\ scroll.pc = "loop" /\ scroll.fn = "scrollForMore"
    /\ scroll.rounds < MaxRounds
    /\ \E m \in Counts : scroll' = ScrollForMoreRound(Measured(scroll, m), m)
    /\ UNCHANGED <<pipelineVars, loader, fpcalc, store, sender>>

ScrollAndLoadMoreStep ==
    /\ scroll.pc = "loop" /\ scroll.fn = "scrollAndLoadMore"
    /\ scroll.rounds < MaxRounds
    /\ \E m \in Counts : scroll' = ScrollAndLoadMoreRound(Measured(Scrolled(scroll), m), m)
    /\ UNCHANGED <<pipelineVars, loader, fpcalc, store, sender>>

NextScroll == ScrollForMoreStep \/ ScrollAndLoadMoreStep

ScrollSpec == InitScroll /\ [][NextScroll]_vars

\* ====================================================================
\* A DeduplicationTracker on its own, one call per step
\* ====================================================================
\* loader holds the tracker (seen, duplicateCount), the last call made on it
\* (op, with its argument arg), the tracker as it was before that call
\* (before), and whether the call repeated the loadExisting before it
\* (repeat).
LoaderTracker == [seen |-> loader.seen, duplicateCount |-> loader.duplicateCount]

InitLoader ==
    /\ PipelineIdle /\ scroll = ScrollIdle /\ fpcalc = FpIdle /\ store = StoreIdle /\ sender = SenderIdle
    /\ loader = [seen |-> {}, duplicateCount |-> 0, op |-> "new", arg |-> <<>>,
                 before |-> [seen |-> {}, duplicateCount |-> 0], repeat |-> FALSE]

\* dedupeTracker.loadExisting(fingerprints)
LoadExistingCall ==
    /\ loader.op # "idle"
    /\ \E fingerprints \in SeqsUpTo(FPs, MaxListLen) :
         LET tr == loadExisting(LoaderTracker, fingerprints) IN
         loader' = [seen |-> tr.seen, duplicateCount |-> tr.duplicateCount,
                    op |-> "loadExisting", arg |-> fingerprints,
                    before |-> LoaderTracker,
                    repeat |-> loader.op = "loadExisting" /\ loader.arg = fingerprints]
    /\ UNCHANGED <<pipelineVars, scroll, fpcalc, store, sender>>

\* dedupeTracker.isNew(ad)
IsNewCall ==
    /\ loader.op # "idle"
    /\ loader.duplicateCount < MaxDuplicates
    /\ \E f \in FPs :
         LET r == isNew(LoaderTracker, [fp |-> f, q |-> 1]) IN
         loader' = [seen |-> r.seen, duplicateCount |-> r.duplicateCount,
                    op |-> "isNew", arg |-> <<f>>,
                    before |-> LoaderTracker, repeat |-> FALSE]
    /\ UNCHANGED <<pipelineVars, scroll, fpcalc, store, sender>>

NextLoader == LoadExistingCall \/ IsNewCall

LoaderSpec == InitLoader /\ [][NextLoader]_vars

\* ====================================================================
\* generateAdFingerprint
\* ====================================================================
\* A string is the sequence of its UTF-16 code units.  The letters taken are
\* a, A, b, B and the Greek sigma in its three forms (capital, small, final);
\* the white space is the space and the tab.
ChA == 97
ChUpperA == 65
ChB == 98
ChUpperB == 66
ChSpace == 32
ChTab == 9
ChUpperSigma == 931 \* capital sigma
ChSigma == 963      \* small sigma
ChFinalSigma == 962 \* small final sigma
ChBar == 124        \* '|'
ChQuestion == 63    \* '?'
ChZero == 48        \* '0'
ChMinus == 45       \* '-'
StrMeta == <<109, 101, 116, 97, 95>>    \* "meta_"

IsSpace(c) == c \in {ChSpace, ChTab}
IsUpper(c) == c \in {ChUpperA, ChUpperB}
IsLower(c) == c \in {ChA, ChB}
IsCased(c) == IsUpper(c) \/ IsLower(c) \/ c \in {ChUpperSigma, ChSigma, ChFinalSigma}

\* Unicode's Final_Sigma condition at position k: a cased letter before it
\* and none after it
FinalSigma(str, k) ==
    /\ k > 1 /\ IsCased(str[k - 1])
    /\ ~(k < Len(str) /\ IsCased(str[k + 1]))

\* mutant: the case of the text is kept
toLowerCaseNot(str) == str

\* String.prototype.toLowerCase: the Unicode lower-case mapping, in which a
\* capital sigma becomes the final sigma at the end of a word
toLowerCase(str) ==
    [k \in 1..Len(str) |->
        IF IsUpper(str[k]) THEN str[k] + 32
        ELSE IF str[k] = ChUpperSigma
             THEN (IF FinalSigma(str, k) THEN ChFinalSigma ELSE ChSigma)
             ELSE str[k]]

\* .replace(/\s+/g, ' '): every maximal run of white space becomes one space
\* (computed on the two halves of the string: a run that spans the middle
\* gives a space on either side, of which one is kept)
RECURSIVE collapseSpaces(_)
collapseSpaces(str) ==
    IF str = <<>> THEN <<>>
    ELSE IF Len(str) = 1 THEN (IF IsSpace(str[1]) THEN <<ChSpace>> ELSE str)
    ELSE LET m == Len(str) \div 2
             l == collapseSpaces(SubSeq(str, 1, m))
             r == collapseSpaces(SubSeq(str, m + 1, Len(str)))
         IN IF l[Len(l)] = ChSpace /\ r[1] = ChSpace THEN l \o Tail(r) ELSE l \o r

\* String.prototype.trim
RECURSIVE trim(_)
trim(str) ==
    IF str = <<>> THEN <<>>
    ELSE IF IsSpace(Head(str)) THEN trim(Tail(str))
    ELSE IF IsSpace(str[Len(str)]) THEN trim(SubSeq(str, 1, Len(str) - 1))
    ELSE str

\* String.prototype.substring(0, n)
substring(str, n) == SubSeq(str, 1, Min(n, Len(str)))

\* .split('?')[0]: the string up to its first '?'
RECURSIVE beforeQuestion(_)
beforeQuestion(str) ==
    IF str = <<>> \/ Head(str) = ChQuestion THEN <<>>
    ELSE <<Head(str)>> \o beforeQuestion(Tail(str))

\* [ ... ].join('|') of the five components; a missing field is ''
\* A field the record does not have reads as undefined.  No string holds a
\* negative code unit, and no list of URLs holds undefined.
Undefined == <<-1>>
NoMediaUrls == <<Undefined>>

\* mutant: the value is used as it is read
OrEmptyKeep(v) == v

\* v || '': undefined and the empty string are falsy
OrEmpty(v) == IF v = Undefined \/ v = <<>> THEN <<>> ELSE v

\* list?.[0]: undefined without a list, and for an empty list
OptionalFirst(list) ==
    IF list = NoMediaUrls THEN Undefined
    ELSE IF list = <<>> THEN Undefined
    ELSE list[1]

components(ad) ==
    OrEmpty(ad.page_id) \o <<ChBar>> \o OrEmpty(ad.page_name) \o <<ChBar>>
        \o substring(trim(collapseSpaces(toLowerCase(OrEmpty(ad.ad_text)))), TextWindow)
        \o <<ChBar>> \o beforeQuestion(OrEmpty(OptionalFirst(ad.media_urls)))
        \o <<ChBar>> \o toLowerCase(OrEmpty(ad.cta_text))

\* A 32-bit integer is [hi, lo], its two 16-bit halves (two's complement).
Word == 65536

\* hash = ((hash << 5) - hash) + char; hash = hash & hash
\* every operation wraps to 32 bits, so the halves are computed with carry
hashStep(h, char) ==
    LET t == 32 * h.lo - h.lo + char
        u == 32 * h.hi - h.hi + (t \div Word)
    IN [hi |-> u % Word, lo |-> t % Word]

\* the loop over str[i..j], in order, starting from h (the test of h.lo has
\* h computed before the loop goes on)
RECURSIVE hashFrom(_, _, _, _)
hashFrom(str, i, j, h) ==
    IF i > j \/ h.lo < 0 THEN h
    ELSE IF i = j THEN hashStep(h, str[i])
    ELSE LET m == (i + j) \div 2 IN hashFrom(str, m + 1, j, hashFrom(str, i, m, h))

\* The number a 32-bit integer stands for, as sign and magnitude: one with
\* the top bit set is negative, its magnitude the two's complement.
signed(h) ==
    IF h.hi < Word \div 2 THEN [neg |-> FALSE, hi |-> h.hi, lo |-> h.lo]
    ELSE [neg |-> TRUE,
          hi |-> (Word - 1 - h.hi + (IF h.lo = 0 THEN 1 ELSE 0)) % Word,
          lo |-> (Word - h.lo) % Word]

\* mutant: the sign is kept
abs32Not(x) == x

\* Math.abs
abs32(x) == [x EXCEPT !.neg = FALSE]

HexDigit(d) == IF d < 10 THEN ChZero + d ELSE ChA + (d - 10)

\* the hexadecimal digits of a 16-bit half, all four
Hex4(w) == <<HexDigit(w \div 4096), HexDigit((w \div 256) % 16),
             HexDigit((w \div 16) % 16), HexDigit(w % 16)>>

\* Number.prototype.toString(16): no leading zero, "0" for zero
RECURSIVE dropZeros(_)
dropZeros(str) ==
    IF Len(str) > 1 /\ Head(str) = ChZero THEN dropZeros(Tail(str)) ELSE str

toString16(x) ==
    (IF x.neg THEN <<ChMinus>> ELSE <<>>) \o dropZeros(Hex4(x.hi) \o Hex4(x.lo))

\* String.prototype.padStart(n, '0')
padStart(str, n) ==
    IF Len(str) >= n THEN str ELSE [k \in 1..(n - Len(str)) |-> ChZero] \o str

\* `meta_${Math.abs(hash).toString(16).padStart(8, '0')}`
render(hash) == StrMeta \o padStart(toString16(abs32(signed(hash))), 8)

generateAdFingerprint(ad) ==
    LET str == components(ad) IN
    render(hashFrom(str, 1, Len(str), [hi |-> 0, lo |-> 0]))

\* ---- records and their variants
TextChars == {ChA, ChUpperA, ChSpace, ChTab, ChUpperSigma, ChSigma}

\* an ad text: a short text, or a long run of letters followed by one, so
\* that the 200-character window ends inside the varied part
LongText == [k \in 1..LongTextLen |-> ChA]

AdTexts == {pre \o t : pre \in {<<>>, LongText}, t \in SeqsUpTo(TextChars, MaxTextLen)}

FpAds ==
    [page_id : {<<>>, <<49>>}, page_name : {<<ChUpperA, ChB>>},
     ad_text : AdTexts, media_urls : {<<<<ChA, ChQuestion, ChB>>>>},
     cta_text : {<<>>, <<ChUpperB>>}]

SwapCase(c) ==
    IF IsUpper(c) THEN c + 32
    ELSE IF IsLower(c) THEN c - 32
    ELSE IF c = ChUpperSigma THEN ChSigma
    ELSE IF c \in {ChSigma, ChFinalSigma} THEN ChUpperSigma
    ELSE c

OtherSpace(c) == IF c = ChSpace THEN ChTab ELSE ChSpace

\* the text with the letter at position i in the other case
CaseEdit(str, i) == [str EXCEPT ![i] = SwapCase(str[i])]

\* the text with the white space at position i of the other kind
SpaceKindEdit(str, i) == [str EXCEPT ![i] = OtherSpace(str[i])]

\* the text with the run of white space at position i one character longer
SpaceRunEdit(str, i, c) == SubSeq(str, 1, i) \o <<c>> \o SubSeq(str, i + 1, Len(str))

\* the text with the character at position i replaced by the letter b
LetterEdit(str, i) == [str EXCEPT ![i] = ChB]

InitFp ==
    /\ PipelineIdle /\ scroll = ScrollIdle /\ loader = LoaderIdle /\ store = StoreIdle /\ sender = SenderIdle
    /\ \E ad \in FpAds :
          fpcalc = [pc |-> "start", ad |-> ad, other |-> ad, edit |-> "none",
                    first |-> <<>>, again |-> <<>>, fpOther |-> <<>>, fpBlank |-> <<>>]

\* generateAdFingerprint(ad), and once more on the same record
FingerprintTwice ==
    /\ fpcalc.pc = "start"
    /\ fpcalc' = [fpcalc EXCEPT !.pc = "called",
                                !.first = generateAdFingerprint(fpcalc.ad),
                                !.again = generateAdFingerprint(fpcalc.ad)]
    /\ UNCHANGED <<pipelineVars, scroll, loader, store, sender>>

\* generateAdFingerprint on a record that differs from the first in its ad
\* text only: in the case of a letter (a Latin one, or a sigma), in the kind
\* or the length of a run of white space, or in a letter itself
FingerprintVariant ==
    /\ fpcalc.pc = "called"
    /\ LET t == fpcalc.ad.ad_text
           from == Len(t) - MaxTextLen     \* the varied part starts after it
       IN \E i \in 1..Len(t) :
          \E edit \in {"case", "caseSigma", "spaceKind", "spaceRun", "letter"} :
            /\ i > from
            /\ edit = "case" => IsUpper(t[i]) \/ IsLower(t[i])
            /\ edit = "caseSigma" => t[i] \in {ChUpperSigma, ChSigma}
            /\ edit \in {"spaceKind", "spaceRun"} => IsSpace(t[i])
            /\ edit = "letter" => t[i] # ChB
            /\ \E c \in {ChSpace, ChTab} :
                 LET t2 == CASE edit \in {"case", "caseSigma"} -> CaseEdit(t, i)
                             [] edit = "spaceKind" -> SpaceKindEdit(t, i)
                             [] edit = "spaceRun" -> SpaceRunEdit(t, i, c)
                             [] OTHER -> LetterEdit(t, i)
                     ad2 == [fpcalc.ad EXCEPT !.ad_text = t2]
                 IN fpcalc' = [fpcalc EXCEPT !.pc = "compared", !.other = ad2,
                                             !.edit = edit,
                                             !.fpOther = generateAdFingerprint(ad2)]
    /\ UNCHANGED <<pipelineVars, scroll, loader, store, sender>>

AdFields == {"page_id", "page_name", "ad_text", "media_urls", "cta_text"}

\* the record without the fields D (media_urls absent, or an empty list)
Without(ad, D, emptyList) ==
    [f \in AdFields |->
        IF f \notin D THEN ad[f]
        ELSE IF f # "media_urls" THEN Undefined
        ELSE IF emptyList THEN <<>> ELSE NoMediaUrls]

\* the record with the fields D set to the empty string
Blank(ad, D) ==
    [f \in AdFields |->
        IF f \notin D THEN ad[f]
        ELSE IF f # "media_urls" THEN <<>> ELSE << <<>> >>]

\* generateAdFingerprint on the record without some of its fields, and on
\* the record with these fields empty
FingerprintMissing ==
    /\ fpcalc.pc = "called"
    /\ \E D \in SUBSET AdFields : \E emptyList \in BOOLEAN :
         /\ D # {}
         /\ emptyList => "media_urls" \in D
         /\ fpcalc' = [fpcalc EXCEPT
                !.pc = "compared", !.edit = "missing",
                !.other = Without(fpcalc.ad, D, emptyList),
                !.fpOther = generateAdFingerprint(Without(fpcalc.ad, D, emptyList)),
                !.fpBlank = generateAdFingerprint(Blank(fpcalc.ad, D))]
    /\ UNCHANGED <<pipelineVars, scroll, loader, store, sender>>

NextFp == FingerprintTwice \/ FingerprintVariant \/ FingerprintMissing

FpSpec == InitFp /\ [][NextFp]_vars

\* ---- the rendering of a hash value
\* halves of 32-bit values: the ends of the range, the sign change and the
\* places where the number of hexadecimal digits changes
HashHalves == {0, 1, 15, 16, 255, 256, 4095, 4096, 32767, 32768, 32769, 65534, 65535}

HashValues == [hi : HashHalves, lo : HashHalves]

InitHash ==
    /\ PipelineIdle /\ scroll = ScrollIdle /\ loader = LoaderIdle /\ store = StoreIdle /\ sender = SenderIdle
    /\ \E h \in HashValues : fpcalc = [pc |-> "hash", hash |-> h, out |-> <<>>]

\* the return statement of generateAdFingerprint for the hash value
RenderHash ==
    /\ fpcalc.pc = "hash"
    /\ fpcalc' = [fpcalc EXCEPT !.pc = "rendered", !.out = render(fpcalc.hash)]
    /\ UNCHANGED <<pipelineVars, scroll, loader, store, sender>>

NextHash == RenderHash

HashSpec == InitHash /\ [][NextHash]_vars

\* ====================================================================
\* The import-ads endpoint and its ads table
\* ====================================================================
\* store holds the rows of the table in the order of their insertion (a row
\* is its id, its ad_fingerprint and the version of the ad's data it holds),
\* the rows as they were before the last request (before), that request's
\* ads (ads) and the status it was answered with (status).
\* A delivered ad is [fp, data]: its ad_fingerprint and which of two
\* scrapes of the ad it is.
ImportAds == [fp : FPs, data : 1..2]

\* the row of the table for a fingerprint: its index, 0 if there is none
RowOf(rows, fp) ==
    IF \E k \in 1..Len(rows) : rows[k].fp = fp
    THEN CHOOSE k \in 1..Len(rows) : rows[k].fp = fp
    ELSE 0

\* mutant: a plain insert, the conflict on ad_fingerprint ignored
upsertOneInsert(rows, ad) ==
    Append(rows, [id |-> Len(rows) + 1, fp |-> ad.fp, data |-> ad.data])

\* ... ON CONFLICT (ad_fingerprint) DO UPDATE for one ad: the row of its
\* fingerprint is overwritten (ignoreDuplicates: false), a new row is added
\* when there is none
upsertOne(rows, ad) ==
    IF RowOf(rows, ad.fp) # 0
    THEN [rows EXCEPT ![RowOf(rows, ad.fp)].data = ad.data]
    ELSE Append(rows, [id |-> Len(rows) + 1, fp |-> ad.fp, data |-> ad.data])

RECURSIVE upsertAll(_, _)
upsertAll(rows, batch) ==
    IF batch = <<>> THEN rows ELSE upsertAll(upsertOne(rows, Head(batch)), Tail(batch))

\* One statement cannot upsert a row twice: a batch that names a fingerprint
\* twice is refused by the database as a whole.
NamesTwice(batch) ==
    \E i, j \in 1..Len(batch) : i # j /\ batch[i].fp = batch[j].fp

InitImport ==
    /\ PipelineIdle /\ scroll = ScrollIdle /\ loader = LoaderIdle /\ fpcalc = FpIdle /\ sender = SenderIdle
    /\ store = [rows |-> <<>>, before |-> <<>>, ads |-> <<>>, status |-> "none"]

\* serve: a request whose payload has no ads array is answered 400
ImportInvalid ==
    /\ store.status # "idle"
    /\ store' = [store EXCEPT !.before = store.rows, !.ads = <<>>, !.status = "400"]
    /\ UNCHANGED <<pipelineVars, scroll, loader, fpcalc, sender>>

\* serve: the ads are upserted in one statement; an error of the database
\* (always, for a batch that names a fingerprint twice) is answered 500 and
\* leaves the table as it was, success is answered 200
ImportBatch ==
    /\ store.status # "idle"
    /\ Len(store.rows) < MaxRows
    /\ \E batch \in SeqsUpTo(ImportAds, MaxImportBatch) : \E dbError \in BOOLEAN :
         IF dbError \/ NamesTwice(batch)
         THEN store' = [store EXCEPT !.before = store.rows, !.ads = batch,
                                     !.status = "500"]
         ELSE store' = [rows |-> upsertAll(store.rows, batch), before |-> store.rows,
                        ads |-> batch, status |-> "200"]
    /\ UNCHANGED <<pipelineVars, scroll, loader, fpcalc, sender>>

NextImport == ImportInvalid \/ ImportBatch

ImportSpec == InitImport /\ [][NextImport]_vars

\* ====================================================================
\* The end of scrapeQuery and the handler's filter, on one page
\* ====================================================================
\* scroll holds maxAds, the tracker's set when scrapeQuery returns (seen), the
\* records extractAdsFromPage found in their order (cards), the array
\* scrapeQuery returns (ret) and what the handler's filter keeps of it (ads).
InitCap ==
    /\ PipelineIdle /\ loader = LoaderIdle /\ fpcalc = FpIdle /\ store = StoreIdle
    /\ sender = SenderIdle
    /\ \E maxAds \in 0..MaxAdsPerQuery, seenBefore \in SUBSET FPs :
          scroll = [pc |-> "extracting", maxAds |-> maxAds, seen |-> seenBefore,
                    cards |-> <<>>, ret |-> <<>>, ads |-> <<>>]

\* const ads = await extractAdsFromPage(page, query); return ads.slice(0, maxAds)
ExtractAndSlice ==
    /\ scroll.pc = "extracting"
    /\ \E cards \in SeqsUpTo(FPs, MaxAdsPerQuery + 1) :
         LET extracted == [k \in 1..Len(cards) |-> [fp |-> cards[k], q |-> 1]] IN
         scroll' = [scroll EXCEPT !.pc = "returned", !.cards = extracted,
                                  !.ret = Slice(extracted, 0, scroll.maxAds)]
    /\ UNCHANGED <<pipelineVars, loader, fpcalc, store, sender>>

\* const ads = rawAds.filter(ad => dedupTracker.isNew(ad))
FilterReturned ==
    /\ scroll.pc = "returned"
    /\ scroll' = [scroll EXCEPT
                     !.pc = "filtered",
                     !.ads = FilterNew([seen |-> scroll.seen, duplicateCount |-> 0],
                                       scroll.ret).ads]
    /\ UNCHANGED <<pipelineVars, loader, fpcalc, store, sender>>

NextCap == ExtractAndSlice \/ FilterReturned

CapSpec == InitCap /\ [][NextCap]_vars

\* ====================================================================
\* A list filtered by a fresh tracker and given to deduplicateAds
\* ====================================================================
\* A record of the list is [fp, gen]: its ad_fingerprint (0: it has none) and
\* the fingerprint generateAdFingerprint computes for it.  loader holds the
\* list (list), what ads.filter(ad => tracker.isNew(ad)) keeps of it on a new
\* DeduplicationTracker (filtered) and what deduplicateAds returns for it
\* (deduped).
DedupAds == [fp : 0..MaxFp, gen : FPs]

\* if (!ad.ad_fingerprint) ad.ad_fingerprint = generateAdFingerprint(ad)
Stamp(ad) == IF ad.fp = 0 THEN [ad EXCEPT !.fp = ad.gen] ELSE ad

StampAll(list) == [k \in 1..Len(list) |-> Stamp(list[k])]

InitDedup ==
    /\ PipelineIdle /\ scroll = ScrollIdle /\ fpcalc = FpIdle /\ store = StoreIdle
    /\ sender = SenderIdle
    /\ \E list \in SeqsUpTo(DedupAds, MaxDedupLen) :
          loader = [op |-> "list", list |-> list, filtered |-> <<>>, deduped |-> <<>>]

\* the list goes through the filter of a new tracker, and through deduplicateAds
FilterAndDeduplicate ==
    /\ loader.op = "list"
    /\ loader' = [loader EXCEPT
                     !.op = "compared",
                     !.filtered = FilterNew([seen |-> {}, duplicateCount |-> 0],
                                            StampAll(loader.list)).ads,
                     !.deduped = deduplicateAds(StampAll(loader.list))]
    /\ UNCHANGED <<pipelineVars, scroll, fpcalc, store, sender>>

NextDedup == FilterAndDeduplicate

DedupSpec == InitDedup /\ [][NextDedup]_vars

\* ====================================================================
\* The checks of scrapeQuery on the page content, on one page
\* ====================================================================
\* The page content is a sequence of pieces of text: the texts the two
\* variants look for, and other text.  scroll holds the variant (v), the
\* content and how scrapeQuery went on after its checks (outcome).
Pieces ==
    BlockSignatures("fast") \cup BlockSignatures("safe") \cup NoResultsMarkers("fast")
        \cup {"other"}

\* pageContent.includes(text)
includes(content, text) == \E k \in 1..Len(content) : content[k] = text

InitDetect ==
    /\ PipelineIdle /\ loader = LoaderIdle /\ fpcalc = FpIdle /\ store = StoreIdle
    /\ sender = SenderIdle
    /\ \E v \in {"fast", "safe"}, content \in SeqsUpTo(Pieces, MaxPieces) :
          scroll = [pc |-> "content", v |-> v, content |-> content, outcome |-> "none"]

\* const pageContent = await page.content() and the checks on it
CheckPageContent ==
    /\ scroll.pc = "content"
    /\ scroll' = [scroll EXCEPT
                     !.pc = "checked",
                     !.outcome =
                         CheckContent(
                             \E t \in BlockSignatures(scroll.v) : includes(scroll.content, t),
                             \E t \in NoResultsMarkers(scroll.v) : includes(scroll.content, t))]
    /\ UNCHANGED <<pipelineVars, loader, fpcalc, store, sender>>

NextDetect == CheckPageContent

DetectSpec == InitDetect /\ [][NextDetect]_vars

\* ====================================================================
\* sendToWebhook on its own, one call per step
\* ====================================================================
\* sender holds what the function closes over (url: input.webhookUrl is set;
\* batchNumber), the POSTs it dispatched (posts), the arguments of the last
\* call (last) and the number of calls made (calls).  The calls come in any
\* order and with any arguments, an empty list included.
SendBatches == SeqsUpTo({[fp |-> 1, q |-> 1]}, MaxListLen)

InitSend ==
    /\ PipelineIdle /\ scroll = ScrollIdle /\ loader = LoaderIdle /\ fpcalc = FpIdle
    /\ store = StoreIdle
    /\ \E url \in BOOLEAN :
          sender = [pc |-> "ready", url |-> url, batchNumber |-> 0, posts |-> <<>>,
                    calls |-> 0, last |-> [ads |-> <<>>, sent |-> FALSE]]

\* sendToWebhook(ads, query, isFinal) up to its await of fetch
SendToWebhookCall ==
    /\ sender.pc = "ready" /\ sender.calls < MaxSendCalls
    /\ \E batch \in SendBatches, q \in Queries, isFinal \in BOOLEAN :
         IF SendsNothing(sender.url, batch)
         THEN sender' = [sender EXCEPT !.calls = @ + 1,
                                       !.last = [ads |-> batch, sent |-> FALSE]]
         ELSE sender' = [sender EXCEPT
                            !.calls = @ + 1,
                            !.last = [ads |-> batch, sent |-> TRUE],
                            !.batchNumber = NextBatchNumber(@),
                            !.posts = Append(@, Payload(NextBatchNumber(sender.batchNumber),
                                                        batch, q, isFinal))]
    /\ UNCHANGED <<pipelineVars, scroll, loader, fpcalc, store>>

\* the fetch of one dispatched POST settles and sendToWebhook returns
SendSettles ==
    /\ sender.pc = "ready"
    /\ \E k \in 1..Len(sender.posts), outcome \in {"ok", "notOk", "threw"} :
         /\ sender.posts[k].status = "inflight"
         /\ sender' = [sender EXCEPT !.posts[k].status = outcome,
                                     !.posts[k].log = WebhookLog(outcome)]
    /\ UNCHANGED <<pipelineVars, scroll, loader, fpcalc, store>>

NextSend == SendToWebhookCall \/ SendSettles

SendSpec == InitSend /\ [][NextSend]_vars

\* ====================================================================
\* Properties
\* ====================================================================
RECURSIVE SumOver(_, _)
SumOver(f, S) ==
    IF S = {} THEN 0
    ELSE LET x == CHOOSE y \in S : TRUE IN f[x] + SumOver(f, S \ {x})

rawCount == SumOver(rawLen, Queries)
Failed(k) == posts[k].status \in {"notOk", "threw"}
PostsOf(q) == SelectSeq(posts, LAMBDA p : p.query = q)

\* C1: whatever the interleaving of the handlers, isNew returns true at most
\* once for every fingerprint, so no two accepted records of the run (of one
\* query or of two) share a fingerprint.
C1_AtMostOneAccept ==
    /\ \A f \in FPs : acceptCount[f] <= 1
    /\ \A i, j \in 1..Len(allAds) : i # j => allAds[i].fp # allAds[j].fp

\* C1 witness: query 1 accepted a fingerprint and is waiting for its POST
\* while query 2 passed a record with the same fingerprint and saw it rejected.
C1_Witness ==
    /\ preloaded = {}
    /\ pc[1] = "posting" /\ Len(ads[1]) = 1 /\ rawLen[1] = 1
    /\ rawLen[2] = 1 /\ ads[2] = <<>> /\ duplicateCount = 1

\* C2: in every tracker state and for every record whose fingerprint is not
\* yet seen, two isNew calls with that record return true and then false, and
\* the duplicate counter after the second call is one more than before the first.
C2_Idempotence ==
    \A f \in FPs \ seen : \A q \in Queries :
        LET ad == [fp |-> f, q |-> q]
            r1 == isNew(Tracker, ad)
            r2 == isNew([seen |-> r1.seen, duplicateCount |-> r1.duplicateCount], ad)
        IN /\ r1.ret
           /\ ~r2.ret
           /\ r2.duplicateCount = duplicateCount + 1
           /\ r1.duplicateCount = duplicateCount

\* C2 witness: a query passed the same unseen record twice (the only calls so
\* far): one was accepted, the next rejected, the counter went from 0 to 1.
C2_Witness ==
    \E q \in Queries :
        /\ preloaded = {} /\ rawCount = 2 /\ rawLen[q] = 2
        /\ Len(ads[q]) = 1 /\ duplicateCount = 1 /\ seen = {ads[q][1].fp}

\* C3: a fingerprint given to loadExisting is never accepted by isNew, and no
\* record with it is collected, pushed to the dataset or delivered.
C3_PreloadedRejected ==
    \A f \in preloaded :
        /\ acceptCount[f] = 0
        /\ \A k \in 1..Len(allAds) : allAds[k].fp # f
        /\ \A rec \in dataset : rec.fp # f
        /\ \A k \in 1..Len(posts) : \A i \in 1..Len(posts[k].ads) : posts[k].ads[i].fp # f

\* C3 witness: the only fingerprint seen is a pre-loaded one, and the first
\* record passed to isNew was rejected.
C3_Witness ==
    /\ preloaded # {} /\ seen = preloaded
    /\ rawCount = 1 /\ duplicateCount = 1 /\ allAds = <<>>

\* C4 as claimed: unique + duplicates equals the number of records passed to
\* isNew, also when fingerprints were pre-loaded.
C4_Claimed == stats(Tracker).unique + stats(Tracker).duplicates = rawCount

\* C4 amended: unique + duplicates equals the number of records passed to
\* isNew plus the number of distinct pre-loaded fingerprints.
C4_CounterConsistency ==
    stats(Tracker).unique + stats(Tracker).duplicates = rawCount + Cardinality(preloaded)

\* C4 witness: a run with a pre-loaded fingerprint in which isNew has accepted
\* a record and rejected another.
C4_Witness ==
    /\ preloaded # {} /\ duplicateCount > 0 /\ Len(allAds) > 0

\* The batches of a query have the shape batch sizing asks for: ceil(n/b)
\* batches, each of size b but the last, which holds the rest; none is empty.
BatchShape(q) ==
    LET P == PostsOf(q)
        n == Len(ads[q])
        b == BatchSize
        c == Ceil(n, b)
    IN /\ Len(P) = c
       /\ \A k \in 1..Len(P) : Len(P[k].ads) > 0
       /\ \A k \in 1..Len(P) : k < c => Len(P[k].ads) = b
       /\ Len(P) = c => Len(P[c].ads) = n - b * (c - 1)

\* C5 as claimed: every query that ended with n > 0 accepted records under a
\* configured endpoint has had exactly ceil(n/b) batches dispatched, of size b
\* but for the last.
C5_Claimed ==
    \A q \in Queries :
        (Terminal(q) /\ webhookUrl /\ Len(ads[q]) > 0) => BatchShape(q)

\* C5 amended: the same for every query whose dataset push succeeded.
C5_BatchSizing ==
    \A q \in Queries :
        (Terminal(q) /\ webhookUrl /\ Len(ads[q]) > 0 /\ failure[q] # "push")
            => BatchShape(q)

\* C5 witness: a query completed with 3 accepted records and batch size 2: a
\* batch of 2 and a last batch of 1.
C5_Witness ==
    \E q \in Queries :
        /\ pc[q] = "completed" /\ Len(ads[q]) = 3 /\ BatchSize = 2
        /\ Len(PostsOf(q)) = 2 /\ Len(PostsOf(q)[2].ads) = 1

\* C6: batch numbers strictly increase in dispatch order (so they are
\* distinct), the first dispatched batch has number 1, and the counter always
\* stands at the number of the last dispatched batch (it is never reset).
C6_BatchNumbering ==
    /\ \A i, j \in 1..Len(posts) : i < j => posts[i].batchNumber < posts[j].batchNumber
    /\ Len(posts) > 0 => posts[1].batchNumber = 1
    /\ Len(posts) > 0 => batchNumber = posts[Len(posts)].batchNumber
    /\ Len(posts) = 0 => batchNumber = 0

\* C6 witness: two handlers dispatched one after the other, and the POST
\* dispatched second completed while the first is still in flight.
C6_Witness ==
    /\ Len(posts) >= 2
    /\ posts[1].query # posts[2].query
    /\ posts[1].status = "inflight" /\ posts[2].status # "inflight"

\* C7: a batch whose POST failed is never POSTed again and fails nothing: its
\* query goes on to its later batches and completes with all ceil(n/b) of them
\* dispatched, the other queries get their batches too, and the run goes on
\* until every query was handled.
C7_FailureNonBlocking ==
    \A k \in 1..Len(posts) :
        Failed(k) =>
            LET q == posts[k].query IN
            /\ pc[q] \in {"posting", "completed"}
            /\ \A j \in 1..Len(posts) :
                   j # k => ~(posts[j].query = q /\ posts[j].ads = posts[k].ads)
            /\ pc[q] = "posting" =>
                   \E j \in 1..Len(posts) :
                       j > k /\ posts[j].query = q /\ posts[j].status = "inflight"
            /\ pc[q] = "completed" => BatchShape(q)
            /\ \A q2 \in Queries :
                   (pc[q2] = "completed" /\ webhookUrl /\ Len(ads[q2]) > 0)
                       => BatchShape(q2)
            /\ mainPc \in {"run", "done"}
            /\ mainPc = "done" => \A q2 \in Queries : Terminal(q2)

\* C7 witness: batch 2 of the 3 batches of a query failed, batch 3 was POSTed
\* after it, and the run ended.
C7_Witness ==
    \E q \in Queries :
        /\ mainPc = "done" /\ Len(PostsOf(q)) = 3
        /\ PostsOf(q)[1].status = "ok"
        /\ PostsOf(q)[2].status = "notOk"
        /\ PostsOf(q)[3].status = "ok"

NumPosts(S) == Cardinality({k \in 1..Len(posts) : posts[k].status \in S})

\* C8 as claimed: the summary's batch count counts only the batches whose
\* POST succeeded.
C8_Claimed ==
    summary.written => summary.webhookBatches = NumPosts({"ok"})

\* C8 amended: the summary's webhookBatches is the number of batches
\* dispatched, failed ones included; the summary has no field for failures.
C8_SummaryBatches ==
    summary.written =>
        /\ summary.webhookBatches = Len(posts)
        /\ summary.webhookBatches = NumPosts({"ok"}) + NumPosts({"notOk", "threw"})
        /\ DOMAIN summary = {"written", "queriesProcessed", "totalQueries",
                             "totalAdsScraped", "uniqueAds", "duplicatesSkipped",
                             "webhookBatches"}

\* C8 witness: the run ended with three batches dispatched, one of them failed.
C8_Witness ==
    /\ summary.written /\ Len(posts) = 3
    /\ NumPosts({"ok"}) = 2 /\ NumPosts({"notOk"}) = 1

\* the K of the claim: 2 attempts in the first scrapeQuery, 3 in the second
ClaimedAttempts == IF variant = "fast" THEN 2 ELSE 3

C9_State ==
    \A q \in Queries :
        /\ attempt[q] <= ClaimedAttempts
        /\ pc[q] = "navigating" => attempt[q] < ClaimedAttempts
        /\ pc[q] \in {"loading", "detecting", "paginating", "extracting"}
               => attempt[q] \in 1..ClaimedAttempts
        /\ failure[q] = "navigation" =>
               /\ pc[q] = "failed" /\ rawLen[q] = 0 /\ ads[q] = <<>>
               /\ PostsOf(q) = <<>>
               /\ \A k \in 1..Len(allAds) : allAds[k].q # q
               /\ \A rec \in dataset : rec.q # q

C9_Step ==
    \A q \in Queries :
        /\ attempt'[q] > attempt[q] =>
               pc[q] = "navigating" /\ attempt'[q] = attempt[q] + 1
        /\ pc[q] \notin {"queued", "navigating"} =>
               pc'[q] # "navigating" /\ attempt'[q] <= attempt[q]
        /\ (pc[q] = "navigating" /\ pc'[q] # "navigating") =>
               \/ pc'[q] = "loading" /\ failure'[q] = "none"
               \/ pc'[q] = "failed" /\ failure'[q] = "navigation"
                    /\ attempt[q] = ClaimedAttempts - 1
        /\ (failure[q] = "none" /\ failure'[q] = "navigation") => pc[q] = "navigating"

\* C9: scrapeQuery makes at most K navigation attempts (2 in the first
\* variant, 3 in the second); after a successful attempt it makes no further
\* attempt and goes on to the stages after navigation; only the failure of the
\* K-th attempt fails the query, which then has had no record extracted,
\* passed to isNew, pushed or delivered.
C9_NavigationRetry == []C9_State /\ [][C9_Step]_vars

\* C9 witness: in the second variant one query navigated on its third attempt
\* and another failed all its attempts.
C9_Witness ==
    /\ variant = "safe"
    /\ attempt[1] = 3 /\ pc[1] = "loading"
    /\ failure[2] = "navigation"

NumQueries(S) == Cardinality({q \in Queries : pc[q] \in S})

\* C10 as claimed: the summary counts the failed queries apart: a failed
\* query is not in its count of completed queries, and the failed count it
\* gives is the number of queries that ended Failed.
C10_Claimed ==
    summary.written =>
        /\ summary.queriesProcessed = NumQueries({"completed"})
        /\ summary.totalQueries - summary.queriesProcessed = NumQueries({"failed"})

C10_Step ==
    \A q \in Queries :
        (pc[q] # "failed" /\ pc'[q] = "failed") => queriesCompleted' = queriesCompleted + 1

C10_State ==
    summary.written =>
        /\ summary.queriesProcessed = queriesCompleted
        /\ summary.queriesProcessed >= NumQueries({"completed"}) + NumQueries({"failed"})
        /\ NumQueries({"completed", "failed"}) = NQ

\* C10 amended: the summary has one count, queriesProcessed, and a query that
\* ends Failed adds one to it just as a completed query does; the summary
\* therefore counts at least every query of the run, failed ones included.
C10_FailedCounted == []C10_State /\ [][C10_Step]_vars

\* C10 witness: the run ended with one query failed at navigation and one
\* completed, and the summary reports both as processed.
C10_Witness ==
    /\ summary.written /\ summary.queriesProcessed = NQ
    /\ failure[1] = "navigation" /\ pc[2] = "completed"

\* ------------------------------------------------------------------- C11
NoRecordOf(q) ==
    /\ rawLen[q] = 0 /\ ads[q] = <<>> /\ PostsOf(q) = <<>>
    /\ \A k \in 1..Len(allAds) : allAds[k].q # q
    /\ \A rec \in dataset : rec.q # q

C11_State ==
    /\ \A q \in Queries :
           failure[q] = "blocked" => pc[q] = "failed" /\ NoRecordOf(q)
    /\ mainPc = "done" => \A q \in Queries : Terminal(q)

C11_Step ==
    \A q \in Queries :
        /\ (failure[q] # "blocked" /\ failure'[q] = "blocked") =>
               pc[q] = "detecting" /\ attempt[q] \in 1..NavAttempts(variant)
        /\ failure[q] = "blocked" =>
               /\ pc'[q] = "failed" /\ failure'[q] = "blocked"
               /\ attempt'[q] = attempt[q] /\ retryCount'[q] = retryCount[q]

\* C11: a block signature found after a successful navigation fails the query
\* at once: the query stays failed, no navigation is attempted for it again,
\* none of its records reaches the tracker, the dataset or the endpoint, and
\* the run still ends with every query handled.
C11_BlockedTerminal == []C11_State /\ [][C11_Step]_vars

\* C11 witness: the first query was blocked, the second was scraped and
\* delivered after it, and the run ended.
C11_Witness ==
    /\ failure[1] = "blocked" /\ mainPc = "done"
    /\ pc[2] = "completed" /\ Len(PostsOf(2)) > 0
    /\ summary.queriesProcessed = NQ

\* ------------------------------------------------------------------- C12
\* the run is over and every query is Completed or Failed
RunEnded ==
    /\ mainPc = "done" /\ summary.written
    /\ \A q \in Queries : pc[q] \in {"completed", "failed"}

StallThreshold == IF scroll.fn = "scrollForMore" THEN 2 ELSE 3

\* C13: while the measurements have grown for k rounds and stayed equal since
\* (all below maxAds), the loop has made at most k + stallThreshold rounds,
\* and after k + stallThreshold rounds it has returned.
C13_PlateauBound ==
    (scroll.pc \in {"loop", "returned"} /\ scroll.shape \in {"growing", "plateau"}) =>
        /\ scroll.rounds <= scroll.k + StallThreshold
        /\ scroll.rounds = scroll.k + StallThreshold => scroll.pc = "returned"

\* C13 witness: a loop returned exactly k + stallThreshold rounds after a
\* growth of k = 2 rounds that stayed below maxAds.
C13_Witness ==
    /\ scroll.pc = "returned" /\ scroll.shape = "plateau" /\ scroll.k = 2
    /\ scroll.last < scroll.maxAds
    /\ scroll.rounds = scroll.k + StallThreshold

\* ------------------------------------------------------------------- C14
\* C14 as claimed: whatever the measurements, a pagination loop makes at most
\* the hard-cap number of rounds (50, the only cap the code has).
C14_Claimed ==
    scroll.pc \in {"loop", "returned"} => scroll.rounds <= MaxScrollAttempts

\* ------------------------------------------------------------------- C15
C15_State ==
    /\ mainPc \in {"precheck", "run", "done"}
    /\ \A outcome \in PreCheckOutcomes :
           \A fingerprints \in SeqsUpTo(StoreFps, MaxPreload) :
               (outcome # "ok" \/ fingerprints = <<>>) =>
                   /\ ~PreCheckLoads(outcome, fingerprints)
                   /\ AfterPreCheck(outcome) = "run"
    /\ mainPc # "precheck" =>
           /\ seen = {} <=> (preloaded = {} /\ rawCount = 0)
           /\ ~webhookUrl => preloaded = {}
    /\ mainPc = "done" => \A q \in Queries : Terminal(q)

C15_Step ==
    mainPc = "precheck" =>
        /\ mainPc' = "run"
        /\ seen' = preloaded'
        /\ \A q \in Queries : pc'[q] = "queued"

\* C15: a pre-check that throws, answers with a non-success status or with an
\* unreadable body, or returns no fingerprint loads nothing and leaves main()
\* where a successful one does, at the crawler: the run starts with an empty
\* tracker, is never aborted, and ends with every query handled.
C15_PreCheckTolerated == []C15_State /\ [][C15_Step]_vars

\* C15 witness: with an endpoint configured the pre-check loaded nothing, and
\* the run ended with both queries scraped.
C15_Witness ==
    /\ webhookUrl /\ preloaded = {} /\ mainPc = "done"
    /\ \A q \in Queries : pc[q] = "completed" /\ rawLen[q] > 0

\* ------------------------------------------------------------------- C16
C16_State ==
    mainPc = "precheck" =>
        /\ \A q \in Queries : pc[q] = "queued" /\ rawLen[q] = 0
        /\ preloaded = {} /\ seen = {}

C16_Step ==
    /\ mainPc = "precheck" => mainPc' = "run"
    /\ mainPc # "precheck" => mainPc' # "precheck" /\ preloaded' = preloaded
    /\ preloaded' # preloaded =>
           /\ mainPc = "precheck" /\ preloaded = {} /\ rawCount = 0
           /\ seen' = preloaded'

\* C16: loadExisting runs only in the pre-check, which main() goes through
\* once, with no isNew call made before it; and while the pre-check is
\* outstanding no query has started.
C16_PreloadOrdering == []C16_State /\ [][C16_Step]_vars

\* C16 witness: a fingerprint was pre-loaded and a query then had records
\* passed to isNew.
C16_Witness ==
    /\ preloaded # {} /\ mainPc = "run"
    /\ \E q \in Queries : rawLen[q] > 0 /\ pc[q] = "pushing"

\* ------------------------------------------------------------------- C17
\* C17: after loadExisting(list) the set is the union of the set before and
\* the list's fingerprints, whether or not some were in the set already or
\* occur several times in the list, the duplicate counter is what it was, and
\* a second loadExisting of the same list changes nothing.
C17_LoadIdempotent ==
    loader.op = "loadExisting" =>
        /\ loader.seen = loader.before.seen \cup Range(loader.arg)
        /\ loader.duplicateCount = loader.before.duplicateCount
        /\ loader.repeat => loader.seen = loader.before.seen

\* C17 witness: a list that names one fingerprint twice, already in the set,
\* was loaded a second time into a tracker that has counted duplicates.
C17_Witness ==
    /\ loader.op = "loadExisting" /\ loader.repeat
    /\ Len(loader.arg) = 2 /\ loader.arg[1] = loader.arg[2]
    /\ loader.arg[1] \in loader.before.seen
    /\ loader.duplicateCount > 0

\* ------------------------------------------------------------------- C18
\* C18 as claimed: a record whose ad text differs only in the case of a
\* letter, whatever the letter, gets the fingerprint of the first.
C18_Claimed ==
    (fpcalc.pc = "compared" /\ fpcalc.edit \in {"case", "caseSigma"}) =>
        fpcalc.fpOther = fpcalc.first

\* C18 amended: two calls of generateAdFingerprint on one record return the
\* same string, and a record whose ad text differs only in the case of a
\* Latin letter or in a run of white space (its length, or the kind of its
\* characters) gets the fingerprint of the first.
C18_FingerprintNormalized ==
    /\ fpcalc.pc \in {"called", "compared"} =>
           /\ fpcalc.first = fpcalc.again
           /\ Len(fpcalc.first) = Len(StrMeta) + 8
    /\ (fpcalc.pc = "compared" /\ fpcalc.edit \in {"case", "spaceKind", "spaceRun"}) =>
           fpcalc.fpOther = fpcalc.first

\* C18 witness: two records of different ad texts, one a case variant of the
\* other inside the first 200 characters of a text longer than that, got the
\* same fingerprint.
C18_Witness ==
    /\ fpcalc.pc = "compared" /\ fpcalc.edit = "case"
    /\ fpcalc.other.ad_text # fpcalc.ad.ad_text
    /\ Len(fpcalc.ad.ad_text) > TextWindow
    /\ fpcalc.ad.ad_text[TextWindow] # fpcalc.other.ad_text[TextWindow]
    /\ fpcalc.fpOther = fpcalc.first

\* ------------------------------------------------------------------- C19
\* C19: after any sequence of requests the table holds at most one row per
\* fingerprint; an accepted request leaves every row that was there in its
\* place, adds one row for each fingerprint that had none, and gives the row
\* of each delivered fingerprint the delivered data; a refused request
\* changes nothing.
C19_ReceiverIdempotent ==
    store.status # "idle" =>
        /\ \A i, j \in 1..Len(store.rows) :
               i # j => store.rows[i].fp # store.rows[j].fp
        /\ store.status = "200" =>
               /\ \A k \in 1..Len(store.before) :
                      /\ store.rows[k].id = store.before[k].id
                      /\ store.rows[k].fp = store.before[k].fp
               /\ Len(store.rows) = Len(store.before)
                     + Cardinality({store.ads[k].fp : k \in 1..Len(store.ads)}
                                   \ {store.before[k].fp : k \in 1..Len(store.before)})
               /\ \A k \in 1..Len(store.ads) :
                      /\ RowOf(store.rows, store.ads[k].fp) # 0
                      /\ store.rows[RowOf(store.rows, store.ads[k].fp)].data = store.ads[k].data
        /\ store.status \in {"400", "500"} => store.rows = store.before

\* C19 witness: an accepted batch delivered again a fingerprint the table
\* held, with other data, next to a new one: the held row was updated and
\* one row was added.
C19_Witness ==
    /\ store.status = "200" /\ Len(store.ads) = 2
    /\ Len(store.before) = 2 /\ Len(store.rows) = 3
    /\ store.ads[1].fp = store.before[1].fp
    /\ store.ads[1].data # store.before[1].data
    /\ store.rows[1].data = store.ads[1].data

\* ------------------------------------------------------------------- C20
\* C20 (as claimed): a query whose handler was abandoned at the expiry of its
\* budget is failed, and no POST with its records is started after the
\* expiry.
C20_Claimed ==
    \A q \in Queries :
        expired[q] # NotExpired =>
            /\ failure[q] # "none"
            /\ \A k \in 1..Len(posts) : posts[k].query = q => k <= expired[q]

\* ------------------------------------------------------------------- C21
\* a step in which the page of q turns out to show no record: the no-results
\* marker is found, or the extraction finds no card
NoResultsStep(q) ==
    \/ /\ pc[q] = "detecting"
       /\ pc'[q] \notin {"detecting", "paginating"}
       /\ failure'[q] # "blocked"
    \/ /\ pc[q] = "extracting"
       /\ pc'[q] # "extracting"
       /\ rawLen'[q] = rawLen[q]

C21_State ==
    \A q \in Queries :
        (pc[q] = "completed" /\ rawLen[q] = 0) =>
            /\ failure[q] = "none"
            /\ ads[q] = <<>>
            /\ \A k \in 1..Len(posts) : posts[k].query # q

C21_Step ==
    \A q \in Queries :
        NoResultsStep(q) =>
            /\ pc'[q] = "completed" /\ failure'[q] = "none"
            /\ ads'[q] = <<>> /\ totalProcessed' = totalProcessed
            /\ posts' = posts /\ batchNumber' = batchNumber
            /\ seen' = seen /\ duplicateCount' = duplicateCount

\* C21: a query whose page shows no record is completed, not failed, with no
\* accepted record; the step that finds it out starts no POST, takes no batch
\* number and leaves the tracker's set and duplicate counter as they were,
\* and no batch of the query is ever dispatched.
C21_NoResultsCompletes == []C21_State /\ [][C21_Step]_vars

\* C21 witness: a query completed without a record on a "fast" run in which
\* the other query's records were dispatched.
C21_Witness ==
    /\ variant = "fast" /\ batchNumber > 0 /\ seen # {}
    /\ \E q \in Queries :
          /\ pc[q] = "completed" /\ rawLen[q] = 0 /\ failure[q] = "none"
          /\ \A k \in 1..Len(posts) : posts[k].query # q

\* ------------------------------------------------------------------- C22
\* C22 (as claimed): the loop has stopped as soon as stallThreshold
\* measurements in a row showed no increase, a lower count being no increase.
C22_Claimed ==
    scroll.pc = "loop" => scroll.flat < StallThreshold

\* ------------------------------------------------------------------- C23
\* C23 (as claimed): the value a pagination loop returns is the count of the
\* last measurement it took.
C23_Claimed ==
    (scroll.pc = "returned" /\ scroll.rounds > 0) => scroll.ret = scroll.last

\* ------------------------------------------------------------------- C24
\* C24: once a measurement shows the maximum or more, the loop has returned
\* and has made no scroll since that measurement.
C24_StopAtMaximum ==
    (scroll.pc \in {"loop", "returned"} /\ scroll.rounds > 0
        /\ scroll.last >= scroll.maxAds) =>
            /\ scroll.pc = "returned"
            /\ scroll.scrolls = scroll.scrollsAtLast

\* C24 witness: each loop returned on a measurement equal to the maximum
\* after rounds that scrolled.
C24_Witness ==
    /\ scroll.pc = "returned" /\ scroll.rounds = 3
    /\ scroll.last = scroll.maxAds /\ scroll.scrolls >= 2
    /\ scroll.fn = "scrollAndLoadMore"

\* ------------------------------------------------------------------- C25
\* C25: every record of a batch whose POST was started is in the dataset (a
\* POST is in posts from the moment it is started, and the dataset only
\* grows), and a query whose dataset push failed has no POST.
C25_State ==
    /\ \A k \in 1..Len(posts) : Range(posts[k].ads) \subseteq dataset
    /\ \A q \in Queries :
          failure[q] = "push" => \A k \in 1..Len(posts) : posts[k].query # q

C25_Step == dataset \subseteq dataset'

C25_DatasetBeforeDelivery == []C25_State /\ [][C25_Step]_vars

\* C25 witness: one query failed at its dataset push, after which a batch of
\* the other query was dispatched.
C25_Witness ==
    \E q \in Queries :
        /\ failure[q] = "push" /\ ads[q] # <<>>
        /\ Len(posts) > 0 /\ posts[Len(posts)].query # q
        /\ Range(posts[Len(posts)].ads) \subseteq dataset

\* ------------------------------------------------------------------- C26
\* the batches of a list of POSTs, one after the other
RECURSIVE ConcatBatches(_)
ConcatBatches(P) ==
    IF P = <<>> THEN <<>> ELSE Head(P).ads \o ConcatBatches(Tail(P))

\* C26: for a query completed under a configured endpoint, its batches taken
\* in the order of their batch numbers (which is their dispatch order) make up
\* its accepted records in extraction order, and no record is in two places
\* of them.
C26_BatchOrderCoverage ==
    \A q \in Queries :
        (pc[q] = "completed" /\ webhookUrl) =>
            LET P == PostsOf(q)
                all == ConcatBatches(P)
            IN /\ \A i, j \in 1..Len(P) : i < j => P[i].batchNumber < P[j].batchNumber
               /\ all = ads[q]
               /\ \A i, j \in 1..Len(all) : i # j => all[i] # all[j]

\* C26 witness: a query completed with 2 accepted records sent in batches of
\* one, between which a batch of the other query was dispatched.
C26_Witness ==
    \E q \in Queries :
        /\ pc[q] = "completed" /\ Len(ads[q]) = 2 /\ BatchSize = 1
        /\ Len(PostsOf(q)) = 2
        /\ PostsOf(q)[2].batchNumber > PostsOf(q)[1].batchNumber + 1

\* ------------------------------------------------------------------- C27
\* C27 (as claimed): of the batches of a completed query, the last one
\* dispatched carries isFinal = true and every other one isFinal = false.
C27_Claimed ==
    \A q \in Queries :
        pc[q] = "completed" =>
            \A k \in 1..Len(PostsOf(q)) :
                PostsOf(q)[k].isFinal <=> (k = Len(PostsOf(q)))

\* ------------------------------------------------------------------- C28
\* C28 (as claimed): the log entry of every failed POST names the batch
\* number the batch was dispatched with.
C28_Claimed ==
    \A k \in 1..Len(posts) :
        Failed(k) =>
            /\ posts[k].log.level # "none"
            /\ "batchNumber" \in DOMAIN posts[k].log
            /\ posts[k].log.batchNumber = posts[k].batchNumber

\* ------------------------------------------------------------------- C29
\* the characters of a fingerprint after the prefix
HexDigits == (ChZero..(ChZero + 9)) \cup (ChA..(ChA + 5))

WellFormed(fp) ==
    /\ Len(fp) = Len(StrMeta) + 8
    /\ SubSeq(fp, 1, Len(StrMeta)) = StrMeta
    /\ \A k \in (Len(StrMeta) + 1)..Len(fp) : fp[k] \in HexDigits

\* C29: the fingerprint of a record without some of page_id, page_name,
\* ad_text, media_urls and cta_text (or with an empty media_urls) is a
\* fingerprint, the one of the record with these fields empty.
C29_MissingFields ==
    (fpcalc.pc = "compared" /\ fpcalc.edit = "missing") =>
        /\ WellFormed(fpcalc.fpOther)
        /\ fpcalc.fpOther = fpcalc.fpBlank

\* C29 witness: a record without any of the five fields got the fingerprint
\* of the record with five empty fields, another one than the full record's.
C29_Witness ==
    /\ fpcalc.pc = "compared" /\ fpcalc.edit = "missing"
    /\ \A f \in AdFields \ {"media_urls"} : fpcalc.other[f] = Undefined
    /\ fpcalc.other.media_urls = NoMediaUrls
    /\ fpcalc.fpOther = fpcalc.fpBlank
    /\ fpcalc.fpOther # fpcalc.first

\* ------------------------------------------------------------------- C30
\* C30: whatever the hash value, the most negative one included, the
\* fingerprint is 'meta_' followed by exactly 8 hexadecimal digits.
C30_FixedWidth ==
    fpcalc.pc = "rendered" => WellFormed(fpcalc.out)

\* C30 witness: the hash -2^31 was rendered as meta_80000000.
C30_Witness ==
    /\ fpcalc.pc = "rendered"
    /\ fpcalc.hash = [hi |-> Word \div 2, lo |-> 0]
    /\ fpcalc.out = StrMeta \o <<ChZero + 8, ChZero, ChZero, ChZero, ChZero, ChZero, ChZero, ChZero>>

\* ------------------------------------------------------------------- C31
\* C31 (as claimed): the counter of processed queries never exceeds the
\* number of queries, and at run end it equals it.
C31_Claimed ==
    /\ queriesCompleted <= NQ
    /\ mainPc = "done" => queriesCompleted = NQ

\* ------------------------------------------------------------------- C32
\* a step of the handler of q before the records are extracted
BeforeExtract(q) ==
    /\ pc[q] \in {"queued", "navigating", "loading", "detecting"}
    /\ pc'[q] # pc[q] \/ attempt'[q] # attempt[q] \/ failure'[q] # failure[q]

FailedEarly(q) == failure[q] \in {"navigation", "blocked"}

C32_State ==
    \A q \in Queries :
        FailedEarly(q) =>
            /\ rawLen[q] = 0 /\ PostsOf(q) = <<>>
            /\ \A k \in 1..Len(allAds) : allAds[k].q # q

C32_Step ==
    \A q \in Queries :
        (BeforeExtract(q) /\ FailedEarly(q)') =>
            UNCHANGED <<seen, duplicateCount, batchNumber, allAds, totalProcessed>>

\* C32: a query that fails by a navigation failure or a block signature
\* changes no shared state: the step that fails it leaves the dedup set, the
\* duplicate counter, the batch counter, the collected records and their
\* total as they were, and the query has offered no record to the tracker,
\* the collected list or the endpoint before.
C32_FailedQueryFrame == []C32_State /\ [][C32_Step]_vars

\* C32 witness: the second query was scraped and delivered, changing the
\* shared state, and the first query then failed its navigation.
C32_Witness ==
    /\ failure[1] = "navigation" /\ pc[1] = "failed"
    /\ pc[2] = "completed" /\ seen # {} /\ batchNumber > 0
    /\ totalProcessed > 0

\* ------------------------------------------------------------------- C33
C33_State ==
    /\ sender.batchNumber = Len(sender.posts)
    /\ \A k \in 1..Len(sender.posts) : sender.posts[k].batchNumber = k
    /\ WebhookBatches(sender.batchNumber, sender.posts) = Len(sender.posts)

C33_Step ==
    sender'.calls = sender.calls + 1 =>
        IF ~sender.url \/ sender'.last.ads = <<>>
        THEN /\ sender'.batchNumber = sender.batchNumber
             /\ sender'.posts = sender.posts
        ELSE /\ sender'.batchNumber = sender.batchNumber + 1
             /\ Len(sender'.posts) = Len(sender.posts) + 1

\* C33: batch numbers are gap-free: the batch counter always equals the
\* number of POSTs dispatched, a call of sendToWebhook with an empty list or
\* without an endpoint dispatches nothing and leaves the counter alone, every
\* other call takes the next number, and the numbers dispatched are exactly
\* 1..webhookBatches.
C33_GapFree == []C33_State /\ [][C33_Step]_vars

\* C33 witness: of three calls made with an endpoint one had an empty list
\* and dispatched nothing; the other two, the last call among them, got the
\* numbers 1 and 2.
C33_Witness ==
    /\ sender.pc = "ready" /\ sender.url /\ sender.calls = 3
    /\ sender.last.sent /\ sender.batchNumber = 2
    /\ sender.posts[1].batchNumber = 1 /\ sender.posts[2].batchNumber = 2

\* ------------------------------------------------------------------- C34
\* C34: for every dispatched batch, whatever the other handlers did in
\* between, the X-Batch-Number header is the text of the body's batchNumber and
\* the X-Is-Final header is the text of the body's isFinal.
C34_HeadersMirrorBody ==
    \A k \in 1..Len(posts) :
        /\ posts[k].hdrBatchNumber = StringOfNumber(posts[k].batchNumber)
        /\ posts[k].hdrIsFinal = StringOfBoolean(posts[k].isFinal)

\* C34 witness: the first query dispatched a batch, the second query
\* dispatched one while that POST was in flight, and the first query then
\* dispatched its next batch with the header "3".
C34_Witness ==
    /\ Len(posts) = 3
    /\ posts[1].query = 1 /\ posts[2].query = 2 /\ posts[3].query = 1
    /\ posts[3].hdrBatchNumber = "3" /\ posts[3].batchNumber = 3
    /\ posts[2].status = "inflight"

\* ------------------------------------------------------------------- C35
\* s is t with some elements left out
RECURSIVE IsSubsequence(_, _)
IsSubsequence(s, t) ==
    IF s = <<>> THEN TRUE
    ELSE IF t = <<>> THEN FALSE
    ELSE IF Head(s) = Head(t) THEN IsSubsequence(Tail(s), Tail(t))
    ELSE IsSubsequence(s, Tail(t))

\* C35: scrapeQuery returns the first maxAds of the extracted records in their
\* order (all of them when there are fewer), so at most maxAds, and what the
\* handler keeps of them for the tracker, the dataset and the delivery is
\* taken from the returned records and is at most maxAds too.
C35_PerQueryCap ==
    scroll.pc \in {"returned", "filtered"} =>
        /\ Len(scroll.ret) = Min(Len(scroll.cards), scroll.maxAds)
        /\ \A k \in 1..Len(scroll.ret) : scroll.ret[k] = scroll.cards[k]
        /\ Len(scroll.ads) <= scroll.maxAds
        /\ IsSubsequence(scroll.ads, scroll.ret)

\* C35 witness: the page held one record more than maxAds = 3, three were
\* returned, and the handler kept all three.
C35_Witness ==
    /\ scroll.pc = "filtered" /\ scroll.maxAds = MaxAdsPerQuery
    /\ Len(scroll.cards) = MaxAdsPerQuery + 1
    /\ Len(scroll.ret) = MaxAdsPerQuery /\ Len(scroll.ads) = MaxAdsPerQuery

\* ------------------------------------------------------------------- C36
\* the positions of list whose fingerprint occurs at no earlier position
FirstPositions(list) ==
    {k \in 1..Len(list) : \A j \in 1..(k - 1) : list[j].fp # list[k].fp}

\* the elements of list at the positions P, in the order of list
RECURSIVE AtPositions(_, _)
AtPositions(list, P) ==
    IF list = <<>> THEN <<>>
    ELSE LET front == AtPositions(SubSeq(list, 1, Len(list) - 1), P) IN
         IF Len(list) \in P THEN Append(front, list[Len(list)]) ELSE front

\* C36: what the filter of a new tracker keeps of a list is exactly what
\* deduplicateAds returns for it: the first record of each fingerprint, in the
\* order of the list.
C36_TrackerRefinesBatch ==
    loader.op = "compared" =>
        /\ loader.filtered = loader.deduped
        /\ loader.filtered = AtPositions(StampAll(loader.list),
                                         FirstPositions(StampAll(loader.list)))

\* C36 witness: a list of four records on two fingerprints, one of them
\* computed for a record that had none, of which the first and the third are
\* kept.
C36_Witness ==
    /\ loader.op = "compared" /\ Len(loader.list) = 4
    /\ loader.list[1].fp = 0 /\ loader.list[2].fp = loader.list[1].gen
    /\ Len(loader.filtered) = 2
    /\ loader.filtered[2] = loader.list[3]
    /\ loader.list[4].fp = loader.list[3].fp

\* ------------------------------------------------------------------- C37
\* C37: the deduplication at run end removes nothing: the collected records
\* have pairwise different fingerprints at all times, their number is the
\* total counter, and the summary's uniqueAds equals its totalAdsScraped.
C37_FinalDedupNoOp ==
    /\ deduplicateAds(allAds) = allAds
    /\ Len(allAds) = totalProcessed
    /\ summary.written => summary.uniqueAds = summary.totalAdsScraped

\* C37 witness: the run ended after both queries contributed records, and
\* repeats were rejected on the way; the summary counts 3 records, all unique.
C37_Witness ==
    /\ mainPc = "done" /\ summary.uniqueAds = 3 /\ summary.totalAdsScraped = 3
    /\ duplicateCount > 0
    /\ \E i, j \in 1..Len(allAds) : allAds[i].q # allAds[j].q

\* ------------------------------------------------------------------- C38
\* the fingerprints isNew returned true for
Accepted == {f \in FPs : acceptCount[f] > 0}

C38_State ==
    /\ seen = preloaded \cup Accepted
    /\ stats(Tracker).unique = Cardinality(preloaded \cup Accepted)

C38_Step ==
    /\ seen \subseteq seen'
    /\ duplicateCount' >= duplicateCount

\* C38: stats.unique is always the size of the union of the pre-loaded
\* fingerprints and the fingerprints isNew accepted; no step removes a
\* fingerprint from the set, and the duplicate counter never decreases.
C38_TrackerShape == []C38_State /\ [][C38_Step]_vars

\* C38 witness: one fingerprint was pre-loaded, two others were accepted, a
\* repeat was rejected, and stats.unique is 3.
C38_Witness ==
    /\ Cardinality(preloaded) = 1 /\ Cardinality(Accepted) = 2
    /\ duplicateCount > 0 /\ stats(Tracker).unique = 3

\* ------------------------------------------------------------------- C39
\* C39: when the page content holds a block signature of the variant and a
\* no-results marker, in whatever order, scrapeQuery throws the blocked error
\* and does not return the empty no-results outcome.
C39_BlockBeforeNoResults ==
    (/\ scroll.pc = "checked"
     /\ \E t \in BlockSignatures(scroll.v) : includes(scroll.content, t)
     /\ \E t \in NoResultsMarkers("fast") : includes(scroll.content, t))
        => scroll.outcome = "blocked"

\* C39 witness: in the first variant the content held "no results" and, after
\* it, "something went wrong"; the query was blocked.
C39_Witness ==
    /\ scroll.pc = "checked" /\ scroll.v = "fast"
    /\ scroll.content = <<"no results", "something went wrong">>
    /\ scroll.outcome = "blocked"

====
